---- MODULE Spec2Model ----
(***************************************************************************)
(* Resumable harvest scripts of the cpss repository:                       *)
(*   1a_modat_host_domain_to_ip.py      (companies -> host search)         *)
(*   1b_networksdb_domain_to_ip.py      (domains  -> NetworksDB lookups)   *)
(*   2_modat_service_api.py             (IPs      -> service search)       *)
(*   4_retrieve_cve_info.py             (CVE ids  -> NVD records)          *)
(*   6_modat_data_validation.py         (one paginated query, checkpoint)  *)
(* One behaviour is a sequence of runs of ONE script (variable script)     *)
(* against the same output directory; a run can be terminated from         *)
(* outside at any step (Kill) and started again (Restart).                 *)
(*                                                                         *)
(* Strings are sequences of atoms.  An atom is one character, or a chunk   *)
(* of characters that holds no '_', ' ', '/', ':' or upper-case letter     *)
(* ("modat", ".json", a date, an IPv4 address), so that split, replace     *)
(* and lower act on the sequence as they act on the text.                  *)
(***************************************************************************)
EXTENDS Integers, Sequences, FiniteSets, TLC

\* ------------------------------------------------------------------ bounds
MaxUnits == 2        \* longest input list (companies, IPs, domains)
MaxRuns == 2         \* runs of the script in one behaviour
MaxPages == 2        \* largest total_pages the mocked API reports for a unit (1a, 2)
MaxTotal == 3        \* largest total_pages the mocked API reports for the query of 6
MaxCves == 2
MaxRetryArg == 2
MaxSec == 1          \* 3: last whole second of the clock
MaxFrac == 1         \* 3: sub-second steps of the clock within one second: 0..MaxFrac
MaxChanges == 2      \* 3: changes other processes make to the service directory

\* ------------------------------------------------------- program constants
MAX_RETRIES == 3
CHECKPOINT_EVERY == 25
BATCH_SIZE == 10

Today == "20260102"
Older == "20260101"

\* ----------------------------------------------------------------- strings
Lower(c) == CASE c = "A" -> "a" [] c = "B" -> "b" [] OTHER -> c

lower(s) == [i \in 1..Len(s) |-> Lower(s[i])]

\* str.replace for one-character patterns
replace(s, old, new) == [i \in 1..Len(s) |-> IF s[i] = old THEN new ELSE s[i]]

RECURSIVE split(_, _)
\* str.split(sep): the pieces between the separators (empty pieces kept)
split(s, sep) ==
    IF \A i \in 1..Len(s) : s[i] # sep
    THEN <<s>>
    ELSE LET k == CHOOSE i \in 1..Len(s) :
                      s[i] = sep /\ \A j \in 1..(i - 1) : s[j] # sep
         IN  <<SubSeq(s, 1, k - 1)>> \o split(SubSeq(s, k + 1, Len(s)), sep)

RECURSIVE join(_, _)
\* sep.join(parts)
join(sep, parts) ==
    IF Len(parts) = 0 THEN <<>>
    ELSE IF Len(parts) = 1 THEN parts[1]
    ELSE parts[1] \o <<sep>> \o join(sep, Tail(parts))

startswith(s, p) == Len(s) >= Len(p) /\ SubSeq(s, 1, Len(p)) = p

endswith(s, p) == Len(s) >= Len(p) /\ SubSeq(s, Len(s) - Len(p) + 1, Len(s)) = p

RECURSIVE strip_dots(_)
\* str.strip(".")
strip_dots(s) ==
    IF Len(s) > 0 /\ s[1] = "." THEN strip_dots(Tail(s))
    ELSE IF Len(s) > 0 /\ s[Len(s)] = "." THEN strip_dots(SubSeq(s, 1, Len(s) - 1))
    ELSE s

\* Path.stem of a name whose last atom is the suffix
stem(name) == SubSeq(name, 1, Len(name) - 1)

Range(f) == {f[i] : i \in DOMAIN f}

\* ------------------------------------------------------------ input lists
\* sorted(set(lines)) of 1a: the names in code-point order ('A' < 'a', ' ' < '.' < '_').
CompanyUniverse ==
    << <<"A", ".", "b">>, <<"a", " ", "b">>, <<"a", ".", "b">>, <<"a", "_", "b">> >>

\* the sub-list of a universe that keeps the positions in I, in order
RECURSIVE SubList(_, _)
SubList(u, I) ==
    IF Len(u) = 0 THEN <<>>
    ELSE LET rest == SubList(SubSeq(u, 1, Len(u) - 1), I)
         IN  IF Len(u) \in I THEN Append(rest, u[Len(u)]) ELSE rest

InputLists(u) ==
    {SubList(u, I) : I \in {J \in SUBSET (1..Len(u)) : Cardinality(J) \in 1..MaxUnits}}

\* sorted unique IPv4 addresses of 2 (write_txt_ips), in address order
IpUniverse == << <<"10.0.0.1">>, <<"10.0.0.2">> >>

\* an address list that is two longer than one batch of 2
LongIps == [i \in 1..(BATCH_SIZE + 2) |-> <<"10.0.1." \o ToString(i)>>]

\* the addresses the mocked API always answers with one page and a 200: the first batch
Steady == {LongIps[i] : i \in 1..BATCH_SIZE}

\* ------------------------------------------------------------------ state
VARIABLES
    script,                 \* which script the behaviour runs
    pc,                     \* position of the run in the script
    run,                    \* number of the current run
    disk,                   \* the unit output files of the script's output directory
    log_file,               \* rows appended to the run's log file
    api_key_file,           \* 1a, 1b, 2, 6: the API key file: "missing", "empty" or "key"
    companies,              \* 1a: the input list
    domains,                \* 1b: the input list (lines of the file, in file order)
    COMPLETED_SAFE_DOMAINS, \* 1b: result of the start-of-run scan
    ips,                    \* 1b: addresses of the DNS answer not yet enriched
    COMPLETED_SAFE_NAMES,   \* 1a: result of the start-of-run scan
    log_entries,            \* 1a: in-memory list the FAIL rows are appended to
    batch_sleeps,           \* 1a, 2: batch sleeps taken since the last unit was saved
    lookups,                \* 1a, 1b: keys of the units whose lookups this run began, in order
    ips_from_txt,           \* 2: the input list
    index,                  \* 2: (ip, date) pairs parsed from the file names
    rescan_old,             \* 2: the operator's answer to the rescan prompt
    ips_to_scan,            \* 2: the list the main loop walks
    idx,                    \* position of the main loop in its list (1-based)
    scan_count,             \* 1a, 2: units saved in this run
    total_pages,            \* total_pages of the unit in progress (2: pages)
    page_num,               \* next page of the unit in progress (2: p)
    all_results,            \* records collected for the unit (2: collected)
    attempt,                \* fetcher: attempt of the call in progress, 0 = no call
    ret,                    \* fetcher: value returned by the last call
    statuses,               \* fetcher: answers received by the call, one per HTTP request
    slept,                  \* fetcher: time.sleep calls of the call in progress
    page_trace,             \* the walk of the unit in this run: pages called, 0 for a sleep between
    requested,              \* units an HTTP request was issued for in this run
    failed_units,           \* units whose first page failed in this run
    prev_failed,            \* failed_units of the previous run
    exhausted,              \* units a fetcher call of this run gave up on after MAX_RETRIES 429s
    api_tp,                 \* 6: total_pages the mocked API reports on each page
    query,                  \* 6: build_query() of the current run
    state,                  \* 6: the checkpoint dict in memory
    pages_done,             \* 6: the set pages_done of main
    range_end,              \* 6: last page of range(1, int(total_pages) + 1)
    tmp_out,                \* 6: the file TMP_OUT
    final_out,              \* 6: the file FINAL_OUT
    prev_out,               \* 6: TMP_OUT as it was before the save in progress
    killed_after,           \* 6: k, n when Kill came right after the checkpoint of page k of n
    prev_query,             \* 6: query of the previous run
    service_dir,            \* 3: the matched files of SERVICE_DIR
    known_domains,          \* 3: result of build_known_domains_index
    now,                    \* 3: the clock, in steps of 1/(MaxFrac + 1) second
    changes,                \* 3: changes made to SERVICE_DIR so far
    new_fp,                 \* 3: new_fp of main
    old_fp,                 \* 3: old_fp of main
    MANIFEST_FILE,          \* 3: the manifest file
    OUT_CSV,                \* 3: the CSV
    TMP_CSV,                \* 3: the temporary CSV
    last_fp,                \* 3: result of the latest dataset_fingerprint call
    last_dir,               \* 3: SERVICE_DIR as it was at that call
    found,                  \* 6: what load_tmp_state returned at line 132 of this run
    last_saved,             \* 6: the dict of the last save_tmp_state that completed
    cves,                   \* 4: the CVE ids extracted from the input CSV (sorted)
    retry_limit,            \* 4: args.retry
    existing,               \* 4: load_existing_jsonl(out_jsonl) at the start of the run
    to_fetch,               \* 4: the ids the fetch loop walks (sorted)
    records_by_cve,         \* 4: id -> record
    failed,                 \* 4: ids whose fetch returned None
    out_jsonl,              \* 4: the file cve_details_nvd_full.jsonl
    jsonl_tmp,              \* 4: the file cve_details_nvd_full.jsonl.tmp
    out_csv                 \* 4: the ids of the rows of cve_details_nvd_full.csv

vars == <<script, pc, run, disk, log_file, api_key_file, companies, domains,
          COMPLETED_SAFE_DOMAINS, ips, COMPLETED_SAFE_NAMES,
          log_entries, ips_from_txt, index, rescan_old, ips_to_scan, idx,
          scan_count, total_pages, page_num, all_results, attempt, ret,
          statuses, slept, page_trace, requested, failed_units, prev_failed, exhausted, api_tp, query, state,
          pages_done, range_end, tmp_out, final_out, prev_out, killed_after,
          prev_query, found, last_saved, cves, retry_limit, existing, to_fetch, records_by_cve, failed,
          out_jsonl, jsonl_tmp, out_csv, service_dir, known_domains, now, changes, new_fp,
          old_fp, MANIFEST_FILE, OUT_CSV, TMP_CSV, last_fp, last_dir, batch_sleeps, lookups>>

inputs == <<script, api_key_file, companies, domains, ips_from_txt, api_tp, cves, retry_limit>>
fetcher == <<attempt, ret, statuses, slept, page_trace>>
walk == <<total_pages, page_num, all_results>>
mem1a == <<COMPLETED_SAFE_NAMES, log_entries>>
mem1b == <<COMPLETED_SAFE_DOMAINS, ips>>
env3 == <<service_dir, known_domains, now, changes>>
loc3 == <<new_fp, old_fp>>
disk3 == <<MANIFEST_FILE, OUT_CSV, TMP_CSV>>
hist3 == <<last_fp, last_dir>>
mem3 == <<env3, loc3, disk3, hist3>>
mem2 == <<index, rescan_old, ips_to_scan>>
mem6 == <<query, state, pages_done, range_end, tmp_out, final_out, prev_out, killed_after,
          prev_query, found, last_saved>>
mem4 == <<existing, to_fetch, records_by_cve, failed, out_jsonl, jsonl_tmp, out_csv>>

NoKill == [k |-> 0, n |-> 0]
history == <<failed_units, prev_failed, exhausted>>

\* ------------------------------------------------------- fetcher results
NoRet == [kind |-> "none", tp |-> 0, recs |-> <<>>, nonempty |-> FALSE]
None == [kind |-> "None", tp |-> 0, recs |-> <<>>, nonempty |-> FALSE]
\* a decoded JSON object; tp = -1: the object has no "total_pages" key
Dict(tp, recs) == [kind |-> "dict", tp |-> tp, recs |-> recs, nonempty |-> TRUE]
EmptyDict == [kind |-> "dict", tp |-> -1, recs |-> <<>>, nonempty |-> FALSE]

\* Python truth value of a fetcher result: None and {} are false
truthy(r) == r.kind = "dict" /\ r.nonempty

\* What one HTTP request can be answered with.
\*   "200"      status 200, a JSON object with total_pages and the page's records
\*   "200empty" status 200, the JSON object {}
\*   "200bad"   status 200, a body that is not JSON
\*   "429", "500"  that status
\*   "neterr"   requests raises (timeout, connection error)
Statuses == {"200", "200empty", "200bad", "429", "500", "neterr"}

\* ------------------------------------------------------------ file names
File(name, whole, results, unit, fetched, total) ==
    [name |-> name, whole |-> whole, results |-> results, unit |-> unit,
     run |-> run, fetched |-> fetched, total |-> total]

\* open(name, "w"): the name exists from now on, empty until the data is written
Truncate(d, f) == {g \in d : g.name # f.name} \cup {f}

\* 1a line 181, 231
safe_name_of(company) == replace(replace(lower(company), " ", "_"), "/", "_")

\* a file name made of the company name as it is in the list
output_file_1a_raw(company, date_str) ==
    <<"modat", "_", "host", "_">> \o company \o <<"_", date_str, ".json">>

\* 1a line 232
output_file_1a(company, date_str) ==
    <<"modat", "_", "host", "_">> \o safe_name_of(company) \o <<"_", date_str, ".json">>

\* glob("modat_host_*_*.json")
glob_host(name) ==
    /\ Len(name) >= 5
    /\ name[Len(name)] = ".json"
    /\ startswith(name, <<"modat", "_", "host", "_">>)
    /\ \E i \in 5..(Len(name) - 1) : name[i] = "_"

\* 1a load_completed_safe_names
load_completed_safe_names(d) ==
    {lower(join("_", SubSeq(split(stem(f.name), "_"), 3, Len(split(stem(f.name), "_")) - 1))) :
        f \in {g \in d : glob_host(g.name) /\ Len(split(stem(g.name), "_")) >= 4}}

\* 1a _under
under(h, base) ==
    LET hh == strip_dots(lower(h))
        bb == strip_dots(lower(base))
    IN  hh = bb \/ endswith(hh, <<".">> \o bb)

\* The mocked host search: page p of a company holds one record; its host is the
\* company's own domain on odd pages and a look-alike ("x" + domain) on even pages.
MockRecords1a(company, p) ==
    << [page |-> p,
        host |-> IF p % 2 = 1 THEN lower(company) ELSE <<"x">> \o lower(company)] >>

\* 1a lines 215-225 (STRICT_SUFFIX_MATCH)
RECURSIVE filtered(_, _)
filtered(results, company_lower) ==
    IF Len(results) = 0 THEN <<>>
    ELSE IF under(results[1].host, company_lower)
         THEN <<results[1]>> \o filtered(Tail(results), company_lower)
         ELSE filtered(Tail(results), company_lower)

\* 2 safe_ip_for_filename
safe_ip_for_filename(ip) == replace(replace(ip, ":", "-"), "/", "_")

\* 2 temp_file_for_ip
temp_file_for_ip(ip) ==
    <<"modat", "_", "service", "_">> \o safe_ip_for_filename(ip) \o <<"_", Today, ".json">>

\* 2 parse_ip_from_filename: <<ip, date>>, or <<>> for (None, None)
parse_ip_from_filename(filename) ==
    IF ~startswith(lower(filename), <<"modat", "_", "service", "_">>) THEN <<>>
    ELSE LET core == SubSeq(filename, 5, Len(filename))
             us == {i \in 1..Len(core) : core[i] = "_"}
         IN  IF us = {} THEN <<>>
             ELSE LET k == CHOOSE i \in us : \A j \in us : j <= i
                      date == SelectSeq(SubSeq(core, k + 1, Len(core)), LAMBDA a : a # ".json")
                  IN  << SubSeq(core, 1, k - 1), date >>

MockRecords2(ip, p) == << [page |-> p, host |-> ip] >>

\* --------------------------------------------------------------- fetchers
\* The unit and the page of the fetcher call in progress.
CurrentUnit ==
    CASE script = "1a" -> companies[idx]
      [] script = "1b" -> domains[idx]
      [] script = "2" -> ips_to_scan[idx]
      [] script = "4" -> to_fetch[idx]
      [] OTHER -> <<>>

CurrentPage == IF pc = "first" THEN 1 ELSE page_num

\* What a call in progress may be answered with: total_pages is the mock's choice on
\* page 1; the later pages of 1a and 2 repeat it (their callers never read it).
MockTotals == IF pc = "first" THEN 1..MaxPages ELSE {total_pages}

\* 1a lines 172-174, 2 lines 324-326: the test at the head of every loop iteration;
\* time.sleep(SLEEP_AFTER_BATCH) is counted in batch_sleeps, which a saved unit
\* (scan_count += 1) sets back to 0
batch_sleep ==
    batch_sleeps' = (IF scan_count > 0 /\ scan_count % BATCH_SIZE = 0
                     THEN batch_sleeps + 1 ELSE batch_sleeps)

\* a call of the fetcher begins; trace is the walk of the unit with this call
Call(trace) ==
    /\ attempt' = 1
    /\ ret' = NoRet
    /\ statuses' = <<>>
    /\ slept' = 0
    /\ page_trace' = trace

\* 1a fetch_page: one pass of the for loop, i.e. one HTTP request and its handling.
\* response.json() is not guarded and requests.post is not in a try: both raise
\* out of the function and end the run with a traceback.
fetch_page_1a ==
    /\ script = "1a" /\ pc \in {"first", "next"}
    /\ attempt \in 1..MAX_RETRIES
    /\ \E st \in Statuses, tp \in MockTotals :
        /\ statuses' = Append(statuses, st)
        /\ slept' = (IF st = "429" THEN slept + 1 ELSE slept)
        /\ UNCHANGED page_trace
        /\ requested' = requested \cup {CurrentUnit}
        /\ exhausted' = (IF st = "429" /\ attempt = MAX_RETRIES
                         THEN exhausted \cup {CurrentUnit} ELSE exhausted)
        /\ IF st = "200" THEN
                /\ ret' = Dict(tp, MockRecords1a(CurrentUnit, CurrentPage))
                /\ attempt' = 0
                /\ pc' = pc
           ELSE IF st = "200empty" THEN
                /\ ret' = EmptyDict
                /\ attempt' = 0
                /\ pc' = pc
           ELSE IF st \in {"200bad", "neterr"} THEN
                /\ ret' = NoRet
                /\ attempt' = 0
                /\ pc' = "aborted"
           ELSE IF st = "429" /\ attempt < MAX_RETRIES THEN
                /\ ret' = NoRet
                /\ attempt' = attempt + 1
                /\ pc' = pc
           ELSE
                /\ ret' = None
                /\ attempt' = 0
                /\ pc' = pc
    /\ UNCHANGED <<inputs, lookups, batch_sleeps, run, disk, log_file, mem1a, mem1b, mem3, mem2, mem6, mem4, idx, scan_count,
                   walk, failed_units, prev_failed>>

\* what the mocked API of 2 answers a request about an address with
Answers2(ip) == IF ip \in Steady THEN {"200"} ELSE Statuses

Totals2(ip) == IF ip \in Steady THEN {1} ELSE MockTotals

\* fetch_page of 2 with every status other than 200 handled as line 180 handles 429
fetch_page_2_retry_other ==
    /\ script = "2" /\ pc \in {"first", "next"}
    /\ attempt \in 1..MAX_RETRIES
    /\ \E st \in Answers2(CurrentUnit), tp \in Totals2(CurrentUnit) :
        /\ statuses' = Append(statuses, st)
        /\ slept' = (IF st \in {"429", "500"} THEN slept + 1 ELSE slept)
        /\ UNCHANGED page_trace
        /\ requested' = requested \cup {CurrentUnit}
        /\ exhausted' = (IF st = "429" /\ attempt = MAX_RETRIES
                         THEN exhausted \cup {CurrentUnit} ELSE exhausted)
        /\ IF st = "200" THEN
                /\ ret' = Dict(tp, MockRecords2(CurrentUnit, CurrentPage))
                /\ attempt' = 0
                /\ pc' = pc
           ELSE IF st = "200empty" THEN
                /\ ret' = EmptyDict
                /\ attempt' = 0
                /\ pc' = pc
           ELSE IF st = "neterr" THEN
                /\ ret' = NoRet
                /\ attempt' = 0
                /\ pc' = "aborted"
           ELSE IF st \in {"429", "500"} /\ attempt < MAX_RETRIES THEN
                /\ ret' = NoRet
                /\ attempt' = attempt + 1
                /\ pc' = pc
           ELSE
                /\ ret' = None
                /\ attempt' = 0
                /\ pc' = pc
    /\ UNCHANGED <<inputs, lookups, batch_sleeps, run, disk, log_file, mem1a, mem1b, mem3, mem2, mem6, mem4, idx, scan_count,
                   walk, failed_units, prev_failed>>

\* 2 fetch_page: as 1a, but r.json() is guarded (undecodable body -> None).
fetch_page_2 ==
    /\ script = "2" /\ pc \in {"first", "next"}
    /\ attempt \in 1..MAX_RETRIES
    /\ \E st \in Answers2(CurrentUnit), tp \in Totals2(CurrentUnit) :
        /\ statuses' = Append(statuses, st)
        /\ slept' = (IF st = "429" THEN slept + 1 ELSE slept)
        /\ UNCHANGED page_trace
        /\ requested' = requested \cup {CurrentUnit}
        /\ exhausted' = (IF st = "429" /\ attempt = MAX_RETRIES
                         THEN exhausted \cup {CurrentUnit} ELSE exhausted)
        /\ IF st = "200" THEN
                /\ ret' = Dict(tp, MockRecords2(CurrentUnit, CurrentPage))
                /\ attempt' = 0
                /\ pc' = pc
           ELSE IF st = "200empty" THEN
                /\ ret' = EmptyDict
                /\ attempt' = 0
                /\ pc' = pc
           ELSE IF st = "neterr" THEN
                /\ ret' = NoRet
                /\ attempt' = 0
                /\ pc' = "aborted"
           ELSE IF st = "429" /\ attempt < MAX_RETRIES THEN
                /\ ret' = NoRet
                /\ attempt' = attempt + 1
                /\ pc' = pc
           ELSE
                /\ ret' = None
                /\ attempt' = 0
                /\ pc' = pc
    /\ UNCHANGED <<inputs, lookups, batch_sleeps, run, disk, log_file, mem1a, mem1b, mem3, mem2, mem6, mem4, idx, scan_count,
                   walk, failed_units, prev_failed>>

\* ---------------------------------------------- 1a_modat_host_domain_to_ip
\* lines 56-64: the key file is missing, or empty after strip(): the script raises
Main1a_NoKey ==
    /\ script = "1a" /\ pc = "start"
    /\ api_key_file # "key"
    /\ pc' = "aborted"
    /\ UNCHANGED <<inputs, lookups, batch_sleeps, run, disk, log_file, mem1a, mem1b, mem3, mem2, mem6, mem4, idx, scan_count, walk,
                   fetcher, requested, history>>

\* module level up to the main loop: the completion scan and the counters
Main1a_Start ==
    /\ script = "1a" /\ pc = "start"
    /\ api_key_file = "key"
    /\ COMPLETED_SAFE_NAMES' = load_completed_safe_names(disk)
    /\ log_entries' = <<>>
    /\ scan_count' = 0
    /\ idx' = 1
    /\ pc' = "loop"
    /\ UNCHANGED <<inputs, lookups, batch_sleeps, run, disk, log_file, mem1b, mem3, mem2, mem6, mem4, walk, fetcher, requested,
                   history>>

\* the for loop has no company left
Main1a_End ==
    /\ script = "1a" /\ pc = "loop"
    /\ idx > Len(companies)
    /\ pc' = "done"
    /\ UNCHANGED <<inputs, lookups, batch_sleeps, run, disk, log_file, mem1a, mem1b, mem3, mem2, mem6, mem4, idx, scan_count, walk,
                   fetcher, requested, history>>

\* lines 183-186
Main1a_Skip ==
    /\ script = "1a" /\ pc = "loop"
    /\ idx <= Len(companies)
    /\ safe_name_of(companies[idx]) \in COMPLETED_SAFE_NAMES
    /\ log_file' = Append(log_file, [key |-> companies[idx], status |-> "SKIP_EXISTS", count |-> 0])
    /\ idx' = idx + 1
    /\ batch_sleep
    /\ UNCHANGED <<inputs, lookups, pc, run, disk, mem1a, mem1b, mem3, mem2, mem6, mem4, scan_count, walk, fetcher,
                   requested, history>>

\* Main1a_Query without the test of line 183: every company is queried
Main1a_Query_unguarded ==
    /\ script = "1a" /\ pc = "loop"
    /\ idx <= Len(companies)
    /\ Call(<<1>>)
    /\ pc' = "first"
    /\ batch_sleep
    /\ lookups' = Append(lookups, safe_name_of(companies[idx]))
    /\ UNCHANGED <<inputs, run, disk, log_file, mem1a, mem1b, mem3, mem2, mem6, mem4, idx, scan_count, walk,
                   requested, history>>

\* lines 188-191: response_data = fetch_page(query, 1)
Main1a_Query ==
    /\ script = "1a" /\ pc = "loop"
    /\ idx <= Len(companies)
    /\ safe_name_of(companies[idx]) \notin COMPLETED_SAFE_NAMES
    /\ Call(<<1>>)
    /\ pc' = "first"
    /\ batch_sleep
    /\ lookups' = Append(lookups, safe_name_of(companies[idx]))
    /\ UNCHANGED <<inputs, run, disk, log_file, mem1a, mem1b, mem3, mem2, mem6, mem4, idx, scan_count, walk,
                   requested, history>>

\* lines 192-199
Main1a_First ==
    /\ script = "1a" /\ pc = "first" /\ attempt = 0
    /\ IF ~truthy(ret) THEN
            /\ log_entries' = Append(log_entries, [key |-> companies[idx], status |-> "FAIL", count |-> 0])
            /\ failed_units' = failed_units \cup {companies[idx]}
            /\ idx' = idx + 1
            /\ pc' = "loop"
            /\ UNCHANGED walk
       ELSE
            /\ total_pages' = (IF ret.tp = -1 THEN 1 ELSE ret.tp)
            /\ all_results' = ret.recs
            /\ page_num' = 2
            /\ pc' = "pages"
            /\ UNCHANGED <<log_entries, failed_units, idx>>
    /\ UNCHANGED <<inputs, lookups, batch_sleeps, run, disk, log_file, COMPLETED_SAFE_NAMES, mem1b, mem3, mem2, mem6, mem4, scan_count,
                   fetcher, requested, prev_failed, exhausted>>

\* lines 203-205: head of the page loop
Main1a_Pages ==
    /\ script = "1a" /\ pc = "pages"
    /\ IF page_num <= total_pages THEN
            /\ Call(page_trace \o <<0, page_num>>)
            /\ pc' = "next"
       ELSE
            /\ pc' = "save"
            /\ UNCHANGED fetcher
    /\ UNCHANGED <<inputs, lookups, batch_sleeps, run, disk, log_file, mem1a, mem1b, mem3, mem2, mem6, mem4, idx, scan_count, walk,
                   requested, history>>

\* lines 206-211
Main1a_Next ==
    /\ script = "1a" /\ pc = "next" /\ attempt = 0
    /\ IF ~truthy(ret) THEN
            /\ pc' = "save"
            /\ UNCHANGED walk
       ELSE
            /\ all_results' = all_results \o ret.recs
            /\ page_num' = page_num + 1
            /\ pc' = "pages"
            /\ UNCHANGED total_pages
    /\ UNCHANGED <<inputs, lookups, batch_sleeps, run, disk, log_file, mem1a, mem1b, mem3, mem2, mem6, mem4, idx, scan_count, fetcher,
                   requested, history>>

\* lines 215-233: filter, scan_count += 1, open(output_file, "w")
Main1a_Save ==
    /\ script = "1a" /\ pc = "save"
    /\ all_results' = filtered(all_results, lower(companies[idx]))
    /\ scan_count' = scan_count + 1
    /\ disk' = Truncate(disk, File(output_file_1a(companies[idx], Today), FALSE, <<>>,
                                   companies[idx], page_num - 1, total_pages))
    /\ pc' = "dump"
    /\ batch_sleeps' = 0
    /\ UNCHANGED <<inputs, lookups, run, log_file, mem1a, mem1b, mem3, mem2, mem6, mem4, idx, total_pages, page_num,
                   fetcher, requested, history>>

\* lines 234-238: json.dump, close, append_log_row(company, "OK", ...)
Main1a_Dump ==
    /\ script = "1a" /\ pc = "dump"
    /\ disk' = Truncate(disk, File(output_file_1a(companies[idx], Today), TRUE, all_results,
                                   companies[idx], page_num - 1, total_pages))
    /\ log_file' = Append(log_file, [key |-> companies[idx], status |-> "OK", count |-> Len(all_results)])
    /\ idx' = idx + 1
    /\ pc' = "loop"
    /\ UNCHANGED <<inputs, lookups, batch_sleeps, run, mem1a, mem1b, mem3, mem2, mem6, mem4, scan_count, walk, fetcher, requested, history>>

\* ------------------------------------------- 1b_networksdb_domain_to_ip
\* the lines of the input file: not sorted, not deduplicated (lines 38-39)
DomainUniverse ==
    << <<"a", ".", "b">>, <<"A", ".", "b">>, <<"a", "/", "b">>, <<"a", ".", "b">> >>

\* line 91
safe_domain_of(domain) == lower(replace(domain, "/", "_"))

\* line 173
output_file_1b(domain, date_str) ==
    <<"networksdb", "_">> \o replace(domain, "/", "_") \o <<"_", date_str, ".json">>

\* glob("networksdb_*_*.json")
glob_networksdb(name) ==
    /\ Len(name) >= 3
    /\ name[Len(name)] = ".json"
    /\ startswith(name, <<"networksdb", "_">>)
    /\ \E i \in 3..(Len(name) - 1) : name[i] = "_"

\* load_completed_safe_domains, lines 42-54
load_completed_safe_domains(d) ==
    {lower(join("_", SubSeq(split(stem(f.name), "_"), 2, Len(split(stem(f.name), "_")) - 1))) :
        f \in {g \in d : glob_networksdb(g.name) /\ Len(split(stem(g.name), "_")) >= 3}}

\* the address list of a DNS answer with results
MockIps(domain) == << <<"10.0.0.1">> >>

\* lines 180-182: the except branch: an error row, no file, next domain
Error1b ==
    /\ log_file' = Append(log_file, [key |-> domains[idx], status |-> "error", count |-> 0])
    /\ failed_units' = failed_units \cup {domains[idx]}
    /\ idx' = idx + 1
    /\ pc' = "loop"

\* lines 30-56, 86-88: the key file is opened (a missing file raises) and read without
\* a test of its content; the domains are loaded, the output directory is scanned
Main1b_Start ==
    /\ script = "1b" /\ pc = "start"
    /\ IF api_key_file = "missing" THEN
            /\ pc' = "aborted"
            /\ UNCHANGED <<COMPLETED_SAFE_DOMAINS, idx>>
       ELSE
            /\ COMPLETED_SAFE_DOMAINS' = load_completed_safe_domains(disk)
            /\ idx' = 1
            /\ pc' = "loop"
    /\ UNCHANGED <<inputs, lookups, batch_sleeps, run, disk, log_file, mem1a, ips, mem3, mem2, mem6, mem4, scan_count, walk,
                   fetcher, requested, history>>

\* the for loop has no domain left
Main1b_End ==
    /\ script = "1b" /\ pc = "loop"
    /\ idx > Len(domains)
    /\ pc' = "done"
    /\ UNCHANGED <<inputs, lookups, batch_sleeps, run, disk, log_file, mem1a, mem1b, mem3, mem2, mem6, mem4, idx, scan_count,
                   walk, fetcher, requested, history>>

\* lines 91-96
Main1b_Skip ==
    /\ script = "1b" /\ pc = "loop"
    /\ idx <= Len(domains)
    /\ safe_domain_of(domains[idx]) \in COMPLETED_SAFE_DOMAINS
    /\ log_file' = Append(log_file, [key |-> domains[idx], status |-> "SKIP_EXISTS", count |-> 0])
    /\ idx' = idx + 1
    /\ UNCHANGED <<inputs, lookups, batch_sleeps, pc, run, disk, mem1a, mem1b, mem3, mem2, mem6, mem4, scan_count, walk,
                   fetcher, requested, history>>

\* lines 98-123: GET /api/dns, raise_for_status, json(); every exception goes to
\* the except branch
Main1b_Dns ==
    /\ script = "1b" /\ pc = "loop"
    /\ idx <= Len(domains)
    /\ safe_domain_of(domains[idx]) \notin COMPLETED_SAFE_DOMAINS
    /\ requested' = requested \cup {domains[idx]}
    /\ all_results' = <<>>
    /\ \E st \in Statuses :
        IF st \in {"200", "200empty"} THEN
            /\ ips' = (IF st = "200" THEN MockIps(domains[idx]) ELSE <<>>)
            /\ pc' = "org"
            /\ UNCHANGED <<log_file, failed_units, idx>>
        ELSE
            /\ Error1b
            /\ UNCHANGED ips
    /\ lookups' = Append(lookups, safe_domain_of(domains[idx]))
    /\ UNCHANGED <<inputs, batch_sleeps, run, disk, mem1a, COMPLETED_SAFE_DOMAINS, mem3, mem2, mem6, mem4, scan_count,
                   total_pages, page_num, fetcher, prev_failed, exhausted>>

\* lines 126-135: POST /api/org-search
Main1b_Org ==
    /\ script = "1b" /\ pc = "org"
    /\ \E st \in Statuses :
        IF st \in {"200", "200empty"} THEN
            /\ pc' = "enrich"
            /\ UNCHANGED <<log_file, failed_units, idx>>
        ELSE
            Error1b
    /\ UNCHANGED <<inputs, lookups, batch_sleeps, run, disk, mem1a, mem1b, mem3, mem2, mem6, mem4, scan_count, walk, fetcher,
                   requested, prev_failed, exhausted>>

\* lines 138-174: POST /api/ip-info for the next address; with no address left the
\* output file is opened for writing
Main1b_Enrich ==
    /\ script = "1b" /\ pc = "enrich"
    /\ IF ips = <<>> THEN
            /\ disk' = Truncate(disk, File(output_file_1b(domains[idx], Today), FALSE, <<>>,
                                           domains[idx], 1, 1))
            /\ pc' = "dump"
            /\ UNCHANGED <<log_file, failed_units, idx, ips, all_results>>
       ELSE
            /\ \E st \in Statuses :
                IF st \in {"200", "200empty"} THEN
                    /\ all_results' = Append(all_results, [page |-> 1, host |-> Head(ips)])
                    /\ ips' = Tail(ips)
                    /\ pc' = pc
                    /\ UNCHANGED <<log_file, failed_units, idx>>
                ELSE
                    /\ Error1b
                    /\ UNCHANGED <<ips, all_results>>
            /\ UNCHANGED disk
    /\ UNCHANGED <<inputs, lookups, batch_sleeps, run, mem1a, COMPLETED_SAFE_DOMAINS, mem3, mem2, mem6, mem4, scan_count,
                   total_pages, page_num, fetcher, requested, prev_failed, exhausted>>

\* lines 175-178: json.dump, close, the success row
Main1b_Dump ==
    /\ script = "1b" /\ pc = "dump"
    /\ disk' = Truncate(disk, File(output_file_1b(domains[idx], Today), TRUE, all_results,
                                   domains[idx], 1, 1))
    /\ log_file' = Append(log_file, [key |-> domains[idx], status |-> "success",
                                     count |-> Len(all_results)])
    /\ idx' = idx + 1
    /\ pc' = "loop"
    /\ UNCHANGED <<inputs, lookups, batch_sleeps, run, mem1a, mem1b, mem3, mem2, mem6, mem4, scan_count, walk, fetcher,
                   requested, history>>

\* -------------------------------------------------- 2_modat_service_api
\* lines 284-290: the (ip, date) pairs of the names parse_ip_from_filename accepts
file_index(d) ==
    {parse_ip_from_filename(f.name) :
        f \in {g \in d : /\ g.name[Len(g.name)] = ".json"
                         /\ Len(parse_ip_from_filename(g.name)) = 2
                         /\ Len(parse_ip_from_filename(g.name)[1]) > 0
                         /\ Len(parse_ip_from_filename(g.name)[2]) > 0}}

dates_of(ix, ip) == {e[2] : e \in {x \in ix : x[1] = ip}}

\* lines 292-303
ips_no_files(ix) == SelectSeq(ips_from_txt, LAMBDA ip : dates_of(ix, ip) = {})
ips_today(ix) == SelectSeq(ips_from_txt, LAMBDA ip : <<Today>> \in dates_of(ix, ip))
ips_old(ix) ==
    SelectSeq(ips_from_txt, LAMBDA ip : dates_of(ix, ip) # {} /\ <<Today>> \notin dates_of(ix, ip))

\* lines 269-272: the operator does not answer "y" to the first prompt
Main2_Stop ==
    /\ script = "2" /\ pc = "start"
    /\ pc' = "done"
    /\ UNCHANGED <<inputs, lookups, batch_sleeps, run, disk, log_file, mem1a, mem1b, mem3, mem2, mem6, mem4, idx, scan_count, walk,
                   fetcher, requested, history>>

\* line 278, load_api_key_or_fail (lines 163-169) raises: no key file, or an empty one
Main2_NoKey ==
    /\ script = "2" /\ pc = "start"
    /\ api_key_file # "key"
    /\ pc' = "aborted"
    /\ UNCHANGED <<inputs, lookups, batch_sleeps, run, disk, log_file, mem1a, mem1b, mem3, mem2, mem6, mem4, idx, scan_count, walk,
                   fetcher, requested, history>>

\* lines 274-321: resume overview, rescan prompt, ips_to_scan
Main2_Overview ==
    /\ script = "2" /\ pc = "start"
    /\ api_key_file = "key"
    /\ \E answer \in BOOLEAN :
        LET ix == file_index(disk)
            rescan == (Len(ips_old(ix)) > 0 /\ answer)
        IN  /\ index' = ix
            /\ rescan_old' = rescan
            /\ ips_to_scan' = ips_no_files(ix) \o (IF rescan THEN ips_old(ix) ELSE <<>>)
    /\ scan_count' = 0
    /\ idx' = 1
    /\ pc' = "loop"
    /\ UNCHANGED <<inputs, lookups, batch_sleeps, run, disk, log_file, mem1a, mem1b, mem3, mem6, mem4, walk, fetcher, requested, history>>

Main2_End ==
    /\ script = "2" /\ pc = "loop"
    /\ idx > Len(ips_to_scan)
    /\ pc' = "done"
    /\ UNCHANGED <<inputs, lookups, batch_sleeps, run, disk, log_file, mem1a, mem1b, mem3, mem2, mem6, mem4, idx, scan_count, walk,
                   fetcher, requested, history>>

\* lines 323-334: first = fetch_page(headers, query, 1)
Main2_Query ==
    /\ script = "2" /\ pc = "loop"
    /\ idx <= Len(ips_to_scan)
    /\ Call(<<1>>)
    /\ pc' = "first"
    /\ batch_sleep
    /\ UNCHANGED <<inputs, lookups, run, disk, log_file, mem1a, mem1b, mem3, mem2, mem6, mem4, idx, scan_count, walk,
                   requested, history>>

\* lines 335-345
Main2_First ==
    /\ script = "2" /\ pc = "first" /\ attempt = 0
    /\ IF ~truthy(ret) THEN
            /\ log_file' = Append(log_file, [key |-> ips_to_scan[idx], status |-> "FAIL", count |-> 0])
            /\ failed_units' = failed_units \cup {ips_to_scan[idx]}
            /\ idx' = idx + 1
            /\ pc' = "loop"
            /\ UNCHANGED walk
       ELSE
            /\ total_pages' = (IF ret.tp = -1 THEN 1 ELSE ret.tp)
            /\ all_results' = ret.recs
            /\ page_num' = 2
            /\ pc' = "pages"
            /\ UNCHANGED <<log_file, failed_units, idx>>
    /\ UNCHANGED <<inputs, lookups, batch_sleeps, run, disk, mem1a, mem1b, mem3, mem2, mem6, mem4, scan_count, fetcher, requested,
                   prev_failed, exhausted>>

\* Main2_Pages without the sleep of line 348
Main2_Pages_no_sleep ==
    /\ script = "2" /\ pc = "pages"
    /\ IF page_num <= total_pages THEN
            /\ Call(Append(page_trace, page_num))
            /\ pc' = "next"
       ELSE
            /\ pc' = "save"
            /\ UNCHANGED fetcher
    /\ UNCHANGED <<inputs, lookups, batch_sleeps, run, disk, log_file, mem1a, mem1b, mem3, mem2, mem6, mem4, idx, scan_count, walk,
                   requested, history>>

\* lines 347-349: head of the page loop
Main2_Pages ==
    /\ script = "2" /\ pc = "pages"
    /\ IF page_num <= total_pages THEN
            /\ Call(page_trace \o <<0, page_num>>)
            /\ pc' = "next"
       ELSE
            /\ pc' = "save"
            /\ UNCHANGED fetcher
    /\ UNCHANGED <<inputs, lookups, batch_sleeps, run, disk, log_file, mem1a, mem1b, mem3, mem2, mem6, mem4, idx, scan_count, walk,
                   requested, history>>

\* Main2_Next without the break of line 352: a failed page is passed over
Main2_Next_no_break ==
    /\ script = "2" /\ pc = "next" /\ attempt = 0
    /\ IF ~truthy(ret) THEN
            /\ page_num' = page_num + 1
            /\ pc' = "pages"
            /\ UNCHANGED <<total_pages, all_results>>
       ELSE
            /\ all_results' = all_results \o ret.recs
            /\ page_num' = page_num + 1
            /\ pc' = "pages"
            /\ UNCHANGED total_pages
    /\ UNCHANGED <<inputs, lookups, batch_sleeps, run, disk, log_file, mem1a, mem1b, mem3, mem2, mem6, mem4, idx, scan_count, fetcher,
                   requested, history>>

\* lines 350-355
Main2_Next ==
    /\ script = "2" /\ pc = "next" /\ attempt = 0
    /\ IF ~truthy(ret) THEN
            /\ pc' = "save"
            /\ UNCHANGED walk
       ELSE
            /\ all_results' = all_results \o ret.recs
            /\ page_num' = page_num + 1
            /\ pc' = "pages"
            /\ UNCHANGED total_pages
    /\ UNCHANGED <<inputs, lookups, batch_sleeps, run, disk, log_file, mem1a, mem1b, mem3, mem2, mem6, mem4, idx, scan_count, fetcher,
                   requested, history>>

\* lines 358-359: tmp_path.write_text opens the final name for writing
Main2_Save ==
    /\ script = "2" /\ pc = "save"
    /\ disk' = Truncate(disk, File(temp_file_for_ip(ips_to_scan[idx]), FALSE, <<>>,
                                   ips_to_scan[idx], page_num - 1, total_pages))
    /\ pc' = "dump"
    /\ UNCHANGED <<inputs, lookups, batch_sleeps, run, log_file, mem1a, mem1b, mem3, mem2, mem6, mem4, idx, scan_count, walk, fetcher,
                   requested, history>>

\* lines 359-365: the text is written, log_row(ip, "OK", ...), scan_count += 1
Main2_Dump ==
    /\ script = "2" /\ pc = "dump"
    /\ disk' = Truncate(disk, File(temp_file_for_ip(ips_to_scan[idx]), TRUE, all_results,
                                   ips_to_scan[idx], page_num - 1, total_pages))
    /\ log_file' = Append(log_file, [key |-> ips_to_scan[idx], status |-> "OK", count |-> Len(all_results)])
    /\ scan_count' = scan_count + 1
    /\ idx' = idx + 1
    /\ pc' = "loop"
    /\ batch_sleeps' = 0
    /\ UNCHANGED <<inputs, lookups, run, mem1a, mem1b, mem3, mem2, mem6, mem4, walk, fetcher, requested, history>>

\* ----------------------------------------------- 6_modat_data_validation
Queries == {"q1", "q2"}

\* the checkpoint dict; total_pages 0 stands for None (the code never stores 0:
\* lines 164 and 191 replace a falsy total by 1 or by the old value)
EmptyState == [query |-> "", total_pages |-> 0, pages_done |-> <<>>, results_by_page |-> <<>>]

FreshState(q) == [query |-> q, total_pages |-> 0, pages_done |-> <<>>, results_by_page |-> <<>>]

\* a file: absent, or present and either written to the end or cut short
Absent == [exists |-> FALSE, whole |-> FALSE, content |-> EmptyState]
Partial == [exists |-> TRUE, whole |-> FALSE, content |-> EmptyState]
Written(st) == [exists |-> TRUE, whole |-> TRUE, content |-> st]

\* load_tmp_state: {} when the file is missing or does not parse
load_tmp_state(f) == IF f.exists /\ f.whole THEN f.content ELSE EmptyState

RECURSIVE sorted(_)
\* sorted(set of ints)
sorted(S) ==
    IF S = {} THEN <<>>
    ELSE LET m == CHOOSE x \in S : \A y \in S : x <= y
         IN  <<m>> \o sorted(S \ {m})

RECURSIVE concat(_, _)
\* the lists of results_by_page joined in the order of pages
concat(rbp, pages) ==
    IF Len(pages) = 0 THEN <<>>
    ELSE rbp[pages[1]] \o concat(rbp, Tail(pages))

\* what consolidate_to_final writes
Final(st) ==
    [exists |-> TRUE,
     query |-> st.query,
     total_pages |-> st.total_pages,
     pages_done |-> sorted(DOMAIN st.results_by_page),
     results |-> concat(st.results_by_page, sorted(DOMAIN st.results_by_page))]

NoFinal == [exists |-> FALSE, query |-> "", total_pages |-> 0, pages_done |-> <<>>, results |-> <<>>]

\* the records the mocked API returns for page p of query q
MockRecords6(q, p) == << [page |-> p, query |-> q] >>

\* state with page p stored (lines 166-169, 192-198)
WithPage(st, p, total, results, done) ==
    [st EXCEPT !.total_pages = total,
               !.results_by_page = [q \in (DOMAIN st.results_by_page) \cup {p} |->
                                        IF q = p THEN results ELSE st.results_by_page[q]],
               !.pages_done = sorted(done)]

\* post_page: one pass of the for loop; r.json() is guarded, requests.post is not
post_page ==
    /\ script = "6" /\ pc \in {"first", "next"}
    /\ attempt \in 1..MAX_RETRIES
    /\ \E st \in Statuses :
        /\ statuses' = Append(statuses, st)
        /\ slept' = (IF st = "429" THEN slept + 1 ELSE slept)
        /\ UNCHANGED page_trace
        /\ requested' = requested \cup {CurrentPage}
        /\ IF st = "200" THEN
                /\ ret' = Dict(api_tp[CurrentPage], MockRecords6(query, CurrentPage))
                /\ attempt' = 0
                /\ pc' = pc
           ELSE IF st = "200empty" THEN
                /\ ret' = EmptyDict
                /\ attempt' = 0
                /\ pc' = pc
           ELSE IF st = "neterr" THEN
                /\ ret' = NoRet
                /\ attempt' = 0
                /\ pc' = "aborted"
           ELSE IF st = "429" /\ attempt < MAX_RETRIES THEN
                /\ ret' = NoRet
                /\ attempt' = attempt + 1
                /\ pc' = pc
           ELSE
                /\ ret' = None
                /\ attempt' = 0
                /\ pc' = pc
    /\ UNCHANGED <<inputs, lookups, batch_sleeps, run, disk, log_file, mem1a, mem1b, mem3, mem2, mem6, mem4, idx, scan_count,
                   walk, history>>

\* line 128, load_api_key_or_fail (lines 36-42) raises: no key file, or an empty one
Main6_NoKey ==
    /\ script = "6" /\ pc = "start"
    /\ api_key_file # "key"
    /\ pc' = "aborted"
    /\ UNCHANGED <<inputs, lookups, batch_sleeps, run, disk, log_file, mem1a, mem1b, mem3, mem2, mem6, mem4, idx, scan_count, walk,
                   fetcher, requested, history>>

\* lines 131-150: no usable checkpoint, or one of another query: start a fresh one
\* and save it (write_text opens TMP_OUT for writing)
Main6_Fresh ==
    /\ script = "6" /\ pc = "start"
    /\ api_key_file = "key"
    /\ load_tmp_state(tmp_out) = EmptyState \/ load_tmp_state(tmp_out).query # query
    /\ state' = FreshState(query)
    /\ prev_out' = tmp_out
    /\ tmp_out' = Partial
    /\ found' = load_tmp_state(tmp_out)
    /\ pc' = "save_init"
    /\ UNCHANGED <<inputs, lookups, batch_sleeps, run, disk, log_file, mem1a, mem1b, mem3, mem2, mem4, query, pages_done, range_end,
                   final_out, killed_after, prev_query, last_saved, idx, scan_count, walk, fetcher, requested,
                   history>>

\* Main6_Resume without the comparison of the queries of line 135
Main6_Resume_any_query ==
    /\ script = "6" /\ pc = "start"
    /\ api_key_file = "key"
    /\ load_tmp_state(tmp_out) # EmptyState
    /\ state' = load_tmp_state(tmp_out)
    /\ found' = load_tmp_state(tmp_out)
    /\ pc' = "loaded"
    /\ UNCHANGED <<inputs, lookups, batch_sleeps, run, disk, log_file, mem1a, mem1b, mem3, mem2, mem4, query, pages_done, range_end,
                   tmp_out, final_out, prev_out, killed_after, prev_query, last_saved, idx, scan_count, walk,
                   fetcher, requested, history>>

\* lines 131-135, 151-152: the stored checkpoint is taken over
Main6_Resume ==
    /\ script = "6" /\ pc = "start"
    /\ api_key_file = "key"
    /\ load_tmp_state(tmp_out) # EmptyState /\ load_tmp_state(tmp_out).query = query
    /\ state' = load_tmp_state(tmp_out)
    /\ found' = load_tmp_state(tmp_out)
    /\ pc' = "loaded"
    /\ UNCHANGED <<inputs, lookups, batch_sleeps, run, disk, log_file, mem1a, mem1b, mem3, mem2, mem4, query, pages_done, range_end,
                   tmp_out, final_out, prev_out, killed_after, prev_query, last_saved, idx, scan_count, walk,
                   fetcher, requested, history>>

\* save_tmp_state: the text reaches the file and the file is closed
save_tmp_state ==
    /\ script = "6" /\ pc \in {"save_init", "save_first", "save_page"}
    /\ tmp_out' = Written(state)
    /\ last_saved' = state
    /\ pc' = (CASE pc = "save_init" -> "loaded"
                [] pc = "save_first" -> "saved_first"
                [] pc = "save_page" -> "saved_page")
    /\ UNCHANGED <<inputs, lookups, batch_sleeps, run, disk, log_file, mem1a, mem1b, mem3, mem2, mem4, query, state, pages_done,
                   range_end, final_out, prev_out, killed_after, prev_query, found, idx, scan_count, walk,
                   fetcher, requested, history>>

\* lines 154-159 and 176-180: page 1 is asked for if the total is unknown and page 1
\* is not done; otherwise the page loop starts over range(1, total_pages + 1)
Main6_Begin ==
    /\ script = "6" /\ pc = "loaded"
    /\ pages_done' = Range(state.pages_done)
    /\ IF state.total_pages = 0 /\ 1 \notin Range(state.pages_done) THEN
            /\ Call(<<1>>)
            /\ pc' = "first"
            /\ UNCHANGED <<total_pages, range_end, page_num>>
       ELSE
            /\ total_pages' = (IF state.total_pages = 0 THEN 1 ELSE state.total_pages)
            /\ range_end' = (IF state.total_pages = 0 THEN 1 ELSE state.total_pages)
            /\ page_num' = 1
            /\ pc' = "loop"
            /\ UNCHANGED fetcher
    /\ UNCHANGED <<inputs, lookups, batch_sleeps, run, disk, log_file, mem1a, mem1b, mem3, mem2, mem4, query, state, tmp_out,
                   final_out, prev_out, killed_after, prev_query, found, last_saved, idx, scan_count, all_results,
                   requested, history>>

\* lines 160-170: page 1 failed (return 1), or it is stored and the save begins
Main6_First ==
    /\ script = "6" /\ pc = "first" /\ attempt = 0
    /\ IF ~truthy(ret) THEN
            /\ log_file' = Append(log_file, [key |-> 1, status |-> "FAIL", count |-> 0])
            /\ pc' = "exit1"
            /\ UNCHANGED <<total_pages, state, pages_done, tmp_out, prev_out>>
       ELSE
            LET total == IF ret.tp \in {-1, 0} THEN 1 ELSE ret.tp
            IN  /\ total_pages' = total
                /\ pages_done' = pages_done \cup {1}
                /\ state' = WithPage(state, 1, total, ret.recs, pages_done \cup {1})
                /\ prev_out' = tmp_out
                /\ tmp_out' = Partial
                /\ pc' = "save_first"
                /\ UNCHANGED log_file
    /\ UNCHANGED <<inputs, lookups, batch_sleeps, run, disk, mem1a, mem1b, mem3, mem2, mem4, query, range_end, final_out,
                   killed_after, prev_query, found, last_saved, idx, scan_count, page_num, all_results, fetcher,
                   requested, history>>

\* lines 171-180: log the page, sleep, enter the page loop
Main6_FirstSaved ==
    /\ script = "6" /\ pc = "saved_first"
    /\ log_file' = Append(log_file, [key |-> 1, status |-> "OK", count |-> Len(state.results_by_page[1])])
    /\ range_end' = total_pages
    /\ page_num' = 1
    /\ pc' = "loop"
    /\ page_trace' = Append(page_trace, 0)
    /\ UNCHANGED <<inputs, lookups, batch_sleeps, run, disk, mem1a, mem1b, mem3, mem2, mem4, query, state, pages_done, tmp_out,
                   final_out, prev_out, killed_after, prev_query, found, last_saved, idx, scan_count, total_pages,
                   all_results, attempt, ret, statuses,
                   slept, requested, history>>

\* lines 180-184: head of the page loop
Main6_Loop ==
    /\ script = "6" /\ pc = "loop"
    /\ IF page_num > range_end THEN
            /\ pc' = "consolidate"
            /\ UNCHANGED <<page_num, fetcher>>
       ELSE IF page_num \in pages_done THEN
            /\ page_num' = page_num + 1
            /\ pc' = pc
            /\ UNCHANGED fetcher
       ELSE
            /\ Call(Append(page_trace, page_num))
            /\ pc' = "next"
            /\ UNCHANGED page_num
    /\ UNCHANGED <<inputs, lookups, batch_sleeps, run, disk, log_file, mem1a, mem1b, mem3, mem2, mem6, mem4, idx, scan_count,
                   total_pages, all_results, requested, history>>

\* lines 185-199: the page failed (return 1), or it is stored and the save begins
Main6_Next ==
    /\ script = "6" /\ pc = "next" /\ attempt = 0
    /\ IF ~truthy(ret) THEN
            /\ log_file' = Append(log_file, [key |-> page_num, status |-> "FAIL", count |-> 0])
            /\ pc' = "exit1"
            /\ UNCHANGED <<total_pages, state, pages_done, tmp_out, prev_out>>
       ELSE
            LET total == IF ret.tp \in {-1, 0} THEN total_pages ELSE ret.tp
            IN  /\ total_pages' = total
                /\ pages_done' = pages_done \cup {page_num}
                /\ state' = WithPage(state, page_num, total, ret.recs, pages_done \cup {page_num})
                /\ prev_out' = tmp_out
                /\ tmp_out' = Partial
                /\ pc' = "save_page"
                /\ UNCHANGED log_file
    /\ UNCHANGED <<inputs, lookups, batch_sleeps, run, disk, mem1a, mem1b, mem3, mem2, mem4, query, range_end, final_out,
                   killed_after, prev_query, found, last_saved, idx, scan_count, page_num, all_results, fetcher,
                   requested, history>>

\* lines 201-203: log the page, sleep, next page
Main6_PageSaved ==
    /\ script = "6" /\ pc = "saved_page"
    /\ log_file' = Append(log_file, [key |-> page_num, status |-> "OK",
                                     count |-> Len(state.results_by_page[page_num])])
    /\ page_num' = page_num + 1
    /\ pc' = "loop"
    /\ page_trace' = Append(page_trace, 0)
    /\ UNCHANGED <<inputs, lookups, batch_sleeps, run, disk, mem1a, mem1b, mem3, mem2, mem6, mem4, idx, scan_count, total_pages,
                   all_results, attempt, ret, statuses,
                   slept, requested, history>>

\* lines 205-210
consolidate_to_final ==
    /\ script = "6" /\ pc = "consolidate"
    /\ final_out' = Final(state)
    /\ pc' = "done"
    /\ UNCHANGED <<inputs, lookups, batch_sleeps, run, disk, log_file, mem1a, mem1b, mem3, mem2, mem4, query, state, pages_done,
                   range_end, tmp_out, prev_out, killed_after, prev_query, found, last_saved, idx, scan_count, walk,
                   fetcher, requested, history>>

\* ------------------------------------------------------ 4_retrieve_cve_info
\* A CVE id is a number; sorted() of ids is numeric order.  A record keeps what the
\* script reads of it: its id, the age class of fetched_at ("now", "week": older than
\* a week, "month": older than a month, "none": no timestamp), whether the NVD payload
\* has a CVSS metric, and the run that fetched it (0: before the first run).
Record(id, fetched_at, cvss, r) ==
    [cve_id |-> id, fetched_at |-> fetched_at, cvss |-> cvss, run |-> r]

keys(records) == {rec.cve_id : rec \in records}

\* an assignment that adds the record and leaves the id's earlier record in place
Put_keep_old(records, rec) == records \cup {rec}

\* records_by_cve[cve] = record
Put(records, rec) == {x \in records : x.cve_id # rec.cve_id} \cup {rec}

\* the input lists: a short one, and one longer than CHECKPOINT_EVERY
CveLists == {[i \in 1..n |-> i] : n \in {MaxCves, CHECKPOINT_EVERY + 1}}

\* the JSONL files a first run can find: none, one record, and two records of which
\* one is not in the input list
ExistingFamily ==
    { {},
      {Record(1, "month", TRUE, 0)},
      {Record(0, "week", FALSE, 0), Record(1, "now", TRUE, 0)} }

\* the ids the mocked NVD may answer with something else than a 200 with metrics
Flaky == {1, CHECKPOINT_EVERY}

NoJsonl == [exists |-> FALSE, records |-> {}]
Jsonl(records) == [exists |-> TRUE, records |-> records]

\* lines 74-133: a missing file is {}; the lines the script wrote parse back to
\* the records they were dumped from
load_existing_jsonl(f) == IF f.exists THEN f.records ELSE {}

\* lines 314-326
older_than_week(ex) == {rec.cve_id : rec \in {x \in ex : x.fetched_at \in {"week", "month"}}}
older_than_month(ex) == {rec.cve_id : rec \in {x \in ex : x.fetched_at = "month"}}
missing_cvss(ex) == {rec.cve_id : rec \in {x \in ex : ~x.cvss}}

\* lines 362-382: the sorted list of ids to fetch for the operator's answers
plan(ex, selected_buckets, choice) ==
    LET cve_set == Range(cves)
        new_missing == cve_set \ keys(ex)
        rescan_set == (IF "1" \in selected_buckets THEN older_than_week(ex) ELSE {})
                      \cup (IF "2" \in selected_buckets THEN older_than_month(ex) ELSE {})
                      \cup (IF "3" \in selected_buckets THEN missing_cvss(ex) ELSE {})
    IN  sorted(IF choice = "3" THEN rescan_set
               ELSE (IF choice = "2" THEN cve_set ELSE new_missing) \cup rescan_set)

\* lines 293-401: extract the ids, load the JSONL, ask for buckets and scan mode,
\* build to_fetch; with nothing to fetch rewrite the CSV from the existing records
Main4_Plan ==
    /\ script = "4" /\ pc = "start"
    /\ existing' = load_existing_jsonl(out_jsonl)
    /\ \E selected_buckets \in SUBSET {"1", "2", "3"}, choice \in {"1", "2", "3"} :
        /\ to_fetch' = plan(existing', selected_buckets, choice)
        /\ IF to_fetch' = <<>> THEN
                /\ out_csv' = keys(existing')
                /\ pc' = "done"
                /\ UNCHANGED <<records_by_cve, failed, idx>>
           ELSE
                /\ records_by_cve' = existing'
                /\ failed' = <<>>
                /\ idx' = 1
                /\ pc' = "loop"
                /\ UNCHANGED out_csv
    /\ UNCHANGED <<inputs, lookups, batch_sleeps, run, disk, log_file, mem1a, mem1b, mem3, mem2, mem6, out_jsonl, jsonl_tmp,
                   scan_count, walk, fetcher, requested, history>>

\* lines 426-433: the next id of to_fetch, call of fetch_nvd_cve
Main4_Query ==
    /\ script = "4" /\ pc = "loop"
    /\ idx <= Len(to_fetch)
    /\ Call(page_trace)
    /\ pc' = "fetch"
    /\ UNCHANGED <<inputs, lookups, batch_sleeps, run, disk, log_file, mem1a, mem1b, mem3, mem2, mem6, mem4, idx, scan_count, walk,
                   requested, history>>

\* what the mocked NVD answers a request for an id with
Answers4(id) == IF id \in Flaky THEN Statuses ELSE {"200"}

\* fetch_nvd_cve, lines 167-197: one pass of the for loop.  A requests exception and
\* a 429 sleep and go to the next attempt; the loop running out returns None.
fetch_nvd_cve ==
    /\ script = "4" /\ pc = "fetch"
    /\ attempt \in 1..retry_limit
    /\ \E st \in Answers4(CurrentUnit) :
        /\ statuses' = Append(statuses, st)
        /\ slept' = (IF st \in {"neterr", "429"} THEN slept + 1 ELSE slept)
        /\ UNCHANGED page_trace
        /\ requested' = requested \cup {CurrentUnit}
        /\ IF st = "200" THEN
                /\ ret' = Dict(-1, <<TRUE>>)
                /\ attempt' = 0
           ELSE IF st = "200empty" THEN
                /\ ret' = EmptyDict
                /\ attempt' = 0
           ELSE IF st \in {"neterr", "429"} /\ attempt < retry_limit THEN
                /\ ret' = NoRet
                /\ attempt' = attempt + 1
           ELSE
                /\ ret' = None
                /\ attempt' = 0
    /\ UNCHANGED <<inputs, lookups, batch_sleeps, pc, run, disk, log_file, mem1a, mem1b, mem3, mem2, mem6, mem4, idx, scan_count,
                   walk, history>>

\* lines 438-458: a None is noted in failed and the loop continues; anything else
\* becomes the id's record, and every CHECKPOINT_EVERY-th position is checkpointed
Main4_Record ==
    /\ script = "4" /\ pc = "fetch"
    /\ attempt = 0
    /\ IF ret = None THEN
            /\ failed' = Append(failed, CurrentUnit)
            /\ idx' = idx + 1
            /\ pc' = "loop"
            /\ UNCHANGED records_by_cve
       ELSE
            /\ records_by_cve' = Put(records_by_cve, Record(CurrentUnit, "now", ret.nonempty, run))
            /\ IF idx % CHECKPOINT_EVERY = 0
               THEN pc' = "checkpoint" /\ idx' = idx
               ELSE pc' = "loop" /\ idx' = idx + 1
            /\ UNCHANGED failed
    /\ UNCHANGED <<inputs, lookups, batch_sleeps, run, disk, log_file, mem1a, mem1b, mem3, mem2, mem6, existing, to_fetch, out_jsonl,
                   jsonl_tmp, out_csv, scan_count, walk, fetcher, requested, history>>

\* line 461: the loop is over, final write
Main4_End ==
    /\ script = "4" /\ pc = "loop"
    /\ idx > Len(to_fetch)
    /\ pc' = "final"
    /\ UNCHANGED <<inputs, lookups, batch_sleeps, run, disk, log_file, mem1a, mem1b, mem3, mem2, mem6, mem4, idx, scan_count, walk,
                   fetcher, requested, history>>

\* write_jsonl_tmp writing only the records of the ids of to_fetch
write_jsonl_tmp_listed ==
    /\ script = "4" /\ pc \in {"checkpoint", "final"}
    /\ jsonl_tmp' = Jsonl({rec \in records_by_cve : rec.cve_id \in Range(to_fetch)})
    /\ pc' = (IF pc = "checkpoint" THEN "checkpoint_replace" ELSE "final_replace")
    /\ UNCHANGED <<inputs, lookups, batch_sleeps, run, disk, log_file, mem1a, mem1b, mem3, mem2, mem6, existing, to_fetch,
                   records_by_cve, failed, out_jsonl, out_csv, idx, scan_count, walk, fetcher,
                   requested, history>>

\* write_jsonl_atomic, lines 137-140: every record is written to the .tmp file
write_jsonl_tmp ==
    /\ script = "4" /\ pc \in {"checkpoint", "final"}
    /\ jsonl_tmp' = Jsonl(records_by_cve)
    /\ pc' = (IF pc = "checkpoint" THEN "checkpoint_replace" ELSE "final_replace")
    /\ UNCHANGED <<inputs, lookups, batch_sleeps, run, disk, log_file, mem1a, mem1b, mem3, mem2, mem6, existing, to_fetch,
                   records_by_cve, failed, out_jsonl, out_csv, idx, scan_count, walk, fetcher,
                   requested, history>>

\* write_jsonl_atomic line 141 (tmp.replace(path)), then the CSV of the same records
\* (lines 454-455, 462-463)
write_jsonl_replace ==
    /\ script = "4" /\ pc \in {"checkpoint_replace", "final_replace"}
    /\ out_jsonl' = jsonl_tmp
    /\ jsonl_tmp' = NoJsonl
    /\ out_csv' = keys(records_by_cve)
    /\ IF pc = "checkpoint_replace"
       THEN pc' = "loop" /\ idx' = idx + 1
       ELSE pc' = "done" /\ idx' = idx
    /\ UNCHANGED <<inputs, lookups, batch_sleeps, run, disk, log_file, mem1a, mem1b, mem3, mem2, mem6, existing, to_fetch,
                   records_by_cve, failed, scan_count, walk, fetcher, requested, history>>

\* ------------------------------------------------- 3_process_json_to_csv
\* the fqdns value of the one result of a service file: shop.example.com,
\* notexample.com and Example.com. with example.com written a.b
Hosts3 == { <<"s", ".", "a", ".", "b">>, <<"n", "a", ".", "b">>, <<"A", ".", "b", ".">> }

\* the domains build_known_domains_index can return, in code-point order
KnownUniverse == << <<"a", ".", "b">>, <<"s", ".", "a", ".", "b">> >>

\* the names sorted(service_dir.glob("modat_service_*_*.json")) can return, in order
ServiceNames == [i \in 1..Len(IpUniverse) |-> temp_file_for_ip(IpUniverse[i])]

\* a matched file: st_size is the length of its text, st_mtime a time of the clock
ServiceFile(name, fqdn, t) == [name |-> name, size |-> Len(fqdn), mtime |-> t, fqdn |-> fqdn]

\* int(st.st_mtime)
int_mtime(t) == t \div (MaxFrac + 1)

LastTick == (MaxSec + 1) * (MaxFrac + 1) - 1

sorted_names(dir) ==
    SubList(ServiceNames, {i \in 1..Len(ServiceNames) : \E f \in dir : f.name = ServiceNames[i]})

file_of(dir, name) == CHOOSE f \in dir : f.name = name

\* hashlib.sha256(blob).hexdigest(): two blobs have the same digest only if equal
sha256(blob) == <<"sha256", blob>>

NoFp == [sha256 |-> <<>>, file_count |-> 0, files |-> <<>>]

\* dataset_fingerprint, lines 211-219
dataset_fingerprint(dir) ==
    LET files == sorted_names(dir)
        items == [i \in 1..Len(files) |->
                    [name |-> files[i], size |-> file_of(dir, files[i]).size,
                     mtime |-> int_mtime(file_of(dir, files[i]).mtime)]]
    IN  [sha256 |-> sha256(items), file_count |-> Len(items), files |-> items]

\* normalize_fqdns of a string that holds one name, lines 65-72
normalize_fqdns(value) ==
    IF strip_dots(value) = <<>> THEN <<>> ELSE <<strip_dots(value)>>

\* extract_base_from_fqdn, line 158
extract_base_from_fqdn(fqdn) == strip_dots(lower(fqdn))

\* h.endswith(dom): a suffix test that is not anchored on a label boundary
suffix_any(h, dom) == endswith(h, dom)

\* h.endswith("." + dom), line 203
suffix_match(h, dom) == endswith(h, <<".">> \o dom)

\* the matches set of match_nidv_company for one name, lines 194-203
matches_of(fqdn, known) ==
    LET h == strip_dots(extract_base_from_fqdn(fqdn))
    IN  IF h = <<>> THEN {}
        ELSE IF h \in known THEN {h}
        ELSE {dom \in known : suffix_match(h, dom)}

\* match_nidv_company, lines 191-205: ";".join(sorted(matches))
match_nidv_company(fqdns, known) ==
    LET matches == UNION {matches_of(fqdns[i], known) : i \in DOMAIN fqdns}
    IN  join(";", SubList(KnownUniverse,
                          {i \in 1..Len(KnownUniverse) : KnownUniverse[i] \in matches}))

NoCsv == [exists |-> FALSE, rows |-> <<>>, header |-> <<>>, lines |-> <<>>]

\* parsed JSON values: an object keeps its members in the order of the text
JStr(t) == [kind |-> "str", text |-> t, n |-> 0, items |-> <<>>]
JNum(n) == [kind |-> "int", text |-> "", n |-> n, items |-> <<>>]
JNull == [kind |-> "null", text |-> "", n |-> 0, items |-> <<>>]
JList(items) == [kind |-> "list", text |-> "", n |-> 0, items |-> items]
JDict(items) == [kind |-> "dict", text |-> "", n |-> 0, items |-> items]
Member(k, v) == [k |-> k, v |-> v]

\* the text of a host of Hosts3
HostText(h) ==
    CASE h = <<"s", ".", "a", ".", "b">> -> "s.a.b"
      [] h = <<"n", "a", ".", "b">> -> "na.b"
      [] OTHER -> "A.b."

\* the result a service file holds for its host: nested objects with the raw
\* certificate, a list with a null, a list of objects, an empty object, and the
\* fqdns as a list or as one string
ResultOf(h) ==
    CASE h = <<"s", ".", "a", ".", "b">> ->
            JDict(<< Member("service", JDict(<< Member("tls", JDict(<< Member("raw", JStr("cert")),
                                                                  Member("cn", JStr("x")) >>)),
                                            Member("port", JNum(443)) >>)),
                    Member("fqdns", JList(<< JStr(HostText(h)) >>)),
                    Member("ip", JStr("10.0.0.1")) >>)
      [] h = <<"n", "a", ".", "b">> ->
            JDict(<< Member("tags", JList(<< JStr("t1"), JNull >>)),
                    Member("ip", JStr("10.0.0.2")),
                    Member("fqdns", JStr(HostText(h))) >>)
      [] OTHER ->
            JDict(<< Member("fqdns", JList(<< JStr(HostText(h)) >>)),
                    Member("cves", JList(<< JDict(<< Member("id", JStr("c1")) >>) >>)),
                    Member("asn", JDict(<< >>)) >>)

\* dict.update
update(a, b) == [k \in DOMAIN a \cup DOMAIN b |-> IF k \in DOMAIN b THEN b[k] ELSE a[k]]

\* clean_for_csv, lines 42-55, of None, a number or a text that holds no white
\* space and no quote at its ends
clean_for_csv(value) ==
    CASE value.kind = "null" -> ""
      [] value.kind = "int" -> ToString(value.n)
      [] OTHER -> value.text

RECURSIVE join_text(_, _)
\* sep.join(vals) of texts
join_text(sep, vals) ==
    IF Len(vals) = 0 THEN ""
    ELSE IF Len(vals) = 1 THEN vals[1]
    ELSE vals[1] \o sep \o join_text(sep, Tail(vals))

RECURSIVE dumps(_)
\* json.dumps of a value, lines 58-62 (objects of one member at most)
dumps(obj) ==
    CASE obj.kind = "dict" ->
            "{" \o join_text(", ", [i \in DOMAIN obj.items |->
                    "\"" \o obj.items[i].k \o "\": " \o dumps(obj.items[i].v)]) \o "}"
      [] obj.kind = "list" ->
            "[" \o join_text(", ", [i \in DOMAIN obj.items |-> dumps(obj.items[i])]) \o "]"
      [] obj.kind = "str" -> "\"" \o obj.text \o "\""
      [] obj.kind = "null" -> "null"
      [] OTHER -> ToString(obj.n)

\* the elements of a list that are not None, in order
RECURSIVE not_none(_)
not_none(items) ==
    IF Len(items) = 0 THEN <<>>
    ELSE IF items[1].kind = "null" THEN not_none(Tail(items))
    ELSE <<items[1]>> \o not_none(Tail(items))

RECURSIVE flatten(_, _)
RECURSIVE flatten_dict(_, _)
\* the loop of flatten over the members of an object, lines 123-132: later
\* members overwrite the keys of earlier ones
flatten_dict(members, parent_key) ==
    IF Len(members) = 0 THEN <<>>
    ELSE LET before == flatten_dict(SubSeq(members, 1, Len(members) - 1), parent_key)
             m == members[Len(members)]
             new_key == IF parent_key # "" THEN parent_key \o "." \o m.k ELSE m.k
         IN  IF new_key = "service.tls.raw" THEN before
             ELSE update(before, flatten(m.v, new_key))

\* flatten, lines 120-151
flatten(obj, parent_key) ==
    IF obj.kind = "dict" THEN flatten_dict(obj.items, parent_key)
    ELSE IF obj.kind = "list" THEN
        LET counted == IF parent_key # ""
                       THEN (parent_key \o "_count") :> ToString(Len(obj.items))
                       ELSE <<>>
        IN  IF \A i \in DOMAIN obj.items : obj.items[i].kind \notin {"dict", "list"}
            THEN LET vals == not_none(obj.items)
                 IN  update(update(counted,
                                   parent_key :> join_text(";", [i \in DOMAIN vals |->
                                                                    clean_for_csv(vals[i])])),
                            (parent_key \o "_count") :> ToString(Len(vals)))
            ELSE update(counted, parent_key :> dumps(obj))
    ELSE parent_key :> clean_for_csv(obj)

\* the keys a row can have, in the order of their code points
KeyOrder ==
    << "cves", "cves_count", "fqdns", "fqdns_count", "ip", "nidv_company", "nidv_hit",
       "scan_date", "service.port", "service.tls.cn", "service.tls.raw", "source_file",
       "source_ip", "tags", "tags_count" >>

rank(k) == CHOOSE i \in DOMAIN KeyOrder : KeyOrder[i] = k

RECURSIVE sorted_keys(_)
\* sorted(set of keys)
sorted_keys(S) ==
    IF S = {} THEN <<>>
    ELSE LET m == CHOOSE x \in S : \A y \in S : rank(x) <= rank(y)
         IN  <<m>> \o sorted_keys(S \ {m})

RECURSIVE keys_as_read(_)
\* the keys of the rows in the order they are first met
keys_as_read(rows) ==
    IF Len(rows) = 0 THEN <<>>
    ELSE LET before == keys_as_read(SubSeq(rows, 1, Len(rows) - 1))
         IN  before \o sorted_keys(DOMAIN rows[Len(rows)] \ Range(before))

\* lines 311, 320: all_headers.update(row.keys()) for every row, sorted(all_headers)
headers_of(rows) == sorted_keys(UNION {DOMAIN rows[i] : i \in DOMAIN rows})

\* the rows process_service_jsons_to_one_csv collects, lines 269-311
all_rows(dir, known) ==
    LET files == sorted_names(dir)
    IN  [i \in 1..Len(files) |->
            LET f == file_of(dir, files[i])
                parts == split(stem(files[i]), "_")
                fqdns_norm == normalize_fqdns(f.fqdn)
                company == match_nidv_company(fqdns_norm, known)
            IN  update(flatten(ResultOf(f.fqdn), ""),
                       [source_file |-> files[i],
                        source_ip |-> (IF Len(parts) >= 4
                                       THEN join("_", SubSeq(parts, 3, Len(parts) - 1))
                                       ELSE <<>>),
                        scan_date |-> parts[Len(parts)],
                        fqdns |-> join(";", fqdns_norm),
                        fqdns_count |-> ToString(Len(fqdns_norm)),
                        nidv_company |-> company,
                        nidv_hit |-> (IF company # <<>> THEN "1" ELSE "0")])]

\* lines 322-326: the header line and one line per row, "" where a row has no
\* value for a column
csv_of(rows) ==
    LET headers == headers_of(rows)
    IN  [exists |-> TRUE, rows |-> rows, header |-> headers,
         lines |-> [i \in DOMAIN rows |->
                      [j \in DOMAIN headers |->
                          IF headers[j] \in DOMAIN rows[i] THEN rows[i][headers[j]] ELSE ""]]]

\* lines 333-340: the fingerprint is taken, the manifest is loaded and compared
Main3_Fingerprint ==
    /\ script = "3" /\ pc = "start"
    /\ new_fp' = dataset_fingerprint(service_dir)
    /\ old_fp' = MANIFEST_FILE
    /\ last_fp' = dataset_fingerprint(service_dir)
    /\ last_dir' = service_dir
    /\ pc' = (IF /\ OUT_CSV.exists
                 /\ MANIFEST_FILE # NoFp
                 /\ MANIFEST_FILE.sha256 = dataset_fingerprint(service_dir).sha256
              THEN "ask" ELSE "build")
    /\ UNCHANGED <<inputs, lookups, batch_sleeps, run, disk, log_file, mem1a, mem1b, env3, disk3, mem2, mem6, mem4, idx,
                   scan_count, walk, fetcher, requested, history>>

\* lines 342-349: the operator answers the prompt
Main3_Skip ==
    /\ script = "3" /\ pc = "ask"
    /\ \E do_skip \in BOOLEAN : pc' = (IF do_skip THEN "done" ELSE "build")
    /\ UNCHANGED <<inputs, lookups, batch_sleeps, run, disk, log_file, mem1a, mem1b, mem3, mem2, mem6, mem4, idx,
                   scan_count, walk, fetcher, requested, history>>

\* lines 351-355, process_service_jsons_to_one_csv: no file or no row: return 2
Main3_Build ==
    /\ script = "3" /\ pc = "build"
    /\ IF service_dir = {} THEN
            /\ pc' = "exit1"
            /\ UNCHANGED TMP_CSV
       ELSE
            /\ TMP_CSV' = csv_of(all_rows(service_dir, known_domains))
            /\ pc' = "replace"
    /\ UNCHANGED <<inputs, lookups, batch_sleeps, run, disk, log_file, mem1a, mem1b, env3, loc3, MANIFEST_FILE, OUT_CSV,
                   hist3, mem2, mem6, mem4, idx, scan_count, walk, fetcher, requested, history>>

\* line 357, atomic_replace
Main3_Replace ==
    /\ script = "3" /\ pc = "replace"
    /\ OUT_CSV' = TMP_CSV
    /\ TMP_CSV' = NoCsv
    /\ pc' = "manifest"
    /\ UNCHANGED <<inputs, lookups, batch_sleeps, run, disk, log_file, mem1a, mem1b, env3, loc3, MANIFEST_FILE, hist3,
                   mem2, mem6, mem4, idx, scan_count, walk, fetcher, requested, history>>

\* line 358, save_manifest
Main3_Manifest ==
    /\ script = "3" /\ pc = "manifest"
    /\ MANIFEST_FILE' = new_fp
    /\ pc' = "done"
    /\ UNCHANGED <<inputs, lookups, batch_sleeps, run, disk, log_file, mem1a, mem1b, env3, loc3, OUT_CSV, TMP_CSV, hist3,
                   mem2, mem6, mem4, idx, scan_count, walk, fetcher, requested, history>>

\* other processes (script 2, the operator) act on SERVICE_DIR between the runs
Open3 == script = "3" /\ pc = "start"

Frame3 ==
    UNCHANGED <<inputs, lookups, batch_sleeps, pc, run, disk, log_file, mem1a, mem1b, known_domains, loc3, disk3, hist3,
                mem2, mem6, mem4, idx, scan_count, walk, fetcher, requested, history>>

\* time passes
Tick3 ==
    /\ Open3
    /\ now < LastTick
    /\ now' = now + 1
    /\ UNCHANGED <<service_dir, changes>>
    /\ Frame3

\* os.utime / touch: the modification time of a matched file becomes the time now
Touch3 ==
    /\ Open3 /\ changes < MaxChanges
    /\ \E f \in service_dir :
        /\ f.mtime # now
        /\ service_dir' = (service_dir \ {f}) \cup {[f EXCEPT !.mtime = now]}
    /\ changes' = changes + 1
    /\ UNCHANGED now
    /\ Frame3

\* a matched file is written again with another text
Modify3 ==
    /\ Open3 /\ changes < MaxChanges
    /\ \E f \in service_dir : \E h \in Hosts3 \ {f.fqdn} :
        service_dir' = (service_dir \ {f}) \cup {ServiceFile(f.name, h, now)}
    /\ changes' = changes + 1
    /\ UNCHANGED now
    /\ Frame3

\* a matched file is added
Add3 ==
    /\ Open3 /\ changes < MaxChanges
    /\ \E n \in Range(ServiceNames) \ {f.name : f \in service_dir} : \E h \in Hosts3 :
        service_dir' = service_dir \cup {ServiceFile(n, h, now)}
    /\ changes' = changes + 1
    /\ UNCHANGED now
    /\ Frame3

\* a matched file is removed
Remove3 ==
    /\ Open3 /\ changes < MaxChanges
    /\ \E f \in service_dir : service_dir' = service_dir \ {f}
    /\ changes' = changes + 1
    /\ UNCHANGED now
    /\ Frame3

\* ------------------------------------------------------ runs of a script
Ended == pc \in {"done", "exit1", "dead", "aborted"}

\* the process is terminated from outside; what it wrote stays on disk
Kill ==
    /\ ~Ended
    /\ pc' = "dead"
    /\ killed_after' = (IF script = "6" /\ pc \in {"saved_first", "saved_page"}
                        THEN [k |-> (IF pc = "saved_first" THEN 1 ELSE page_num),
                              n |-> total_pages]
                        ELSE NoKill)
    /\ UNCHANGED <<inputs, lookups, batch_sleeps, run, disk, log_file, mem1a, mem1b, mem3, mem2, mem4, query, state, pages_done,
                   range_end, tmp_out, final_out, prev_out, prev_query, found, last_saved, idx, scan_count, walk,
                   fetcher, requested, history>>

\* the operator starts the script again: a new process, the same disk; the log file
\* is new (1a, 2, 6: named by the time of the start) or the one of the day (1b)
Restart ==
    /\ Ended
    /\ run < MaxRuns
    /\ run' = run + 1
    /\ pc' = "start"
    /\ log_file' = (IF script = "1b" THEN log_file ELSE <<>>)
    /\ COMPLETED_SAFE_NAMES' = {}
    /\ COMPLETED_SAFE_DOMAINS' = {}
    /\ ips' = <<>>
    /\ log_entries' = <<>>
    /\ index' = {}
    /\ rescan_old' = FALSE
    /\ ips_to_scan' = <<>>
    /\ idx' = 0
    /\ scan_count' = 0
    /\ batch_sleeps' = 0
    /\ lookups' = <<>>
    /\ total_pages' = 0
    /\ page_num' = 0
    /\ all_results' = <<>>
    /\ attempt' = 0
    /\ ret' = NoRet
    /\ statuses' = <<>>
    /\ slept' = 0
    /\ page_trace' = <<>>
    /\ requested' = {}
    /\ failed_units' = {}
    /\ prev_failed' = failed_units
    /\ exhausted' = {}
    /\ query' \in (IF script = "6" THEN Queries ELSE {query})
    /\ state' = EmptyState
    /\ pages_done' = {}
    /\ range_end' = 0
    /\ prev_out' = tmp_out
    /\ prev_query' = query
    /\ found' = EmptyState
    /\ killed_after' = (IF pc = "dead" THEN killed_after ELSE NoKill)
    /\ existing' = {}
    /\ to_fetch' = <<>>
    /\ records_by_cve' = {}
    /\ failed' = <<>>
    /\ new_fp' = NoFp
    /\ old_fp' = NoFp
    /\ UNCHANGED <<inputs, disk, tmp_out, final_out, last_saved, out_jsonl, jsonl_tmp, out_csv,
                   env3, disk3, hist3>>

\* ------------------------------------------------------------------ Init
\* an entry of an output directory that no run of the script wrote
Foreign(name) ==
    [name |-> name, whole |-> TRUE, results |-> <<>>, unit |-> <<>>, run |-> 0,
     fetched |-> 0, total |-> 0]

\* entries of the output directory of 1a that do not follow
\* modat_host_<key>_<date>.json: a tmp_ file with a foreign prefix, a name
\* without a key, a name without a date (the company "a b")
Foreign1a ==
    { Foreign(<<"tmp", "_", "modat", "_", "host", "_", "a", ".", "b", "_", Today, ".json">>),
      Foreign(<<"modat", "_", "host", "_", "_", Today, ".json">>),
      Foreign(<<"modat", "_", "host", "_", "a", "_", "b", ".json">>) }

\* the same for the output directory of 2 and modat_service_<ip>_<date>.json
Foreign2 ==
    { Foreign(<<"tmp", "_", "modat", "_", "service", "_", "10.0.0.1", "_", Today, ".json">>),
      Foreign(<<"modat", "_", "service", "_", "_", Today, ".json">>),
      Foreign(<<"modat", "_", "service", "_", "10.0.0.1", ".json">>) }

\* no foreign entry, or one
OneOrNone(S) == {{}} \cup {{f} : f \in S}

OlderFile2(ip) ==
    [name |-> <<"modat", "_", "service", "_">> \o safe_ip_for_filename(ip) \o <<"_", Older, ".json">>,
     whole |-> TRUE, results |-> <<>>, unit |-> ip, run |-> 0, fetched |-> 1, total |-> 1]

InitMemory ==
    /\ pc = "start"
    /\ run = 1
    /\ log_file = <<>>
    /\ COMPLETED_SAFE_NAMES = {}
    /\ COMPLETED_SAFE_DOMAINS = {}
    /\ ips = <<>>
    /\ log_entries = <<>>
    /\ index = {}
    /\ rescan_old = FALSE
    /\ ips_to_scan = <<>>
    /\ idx = 0
    /\ scan_count = 0
    /\ batch_sleeps = 0
    /\ lookups = <<>>
    /\ total_pages = 0
    /\ page_num = 0
    /\ all_results = <<>>
    /\ attempt = 0
    /\ ret = NoRet
    /\ statuses = <<>>
    /\ slept = 0
    /\ page_trace = <<>>
    /\ requested = {}
    /\ failed_units = {}
    /\ prev_failed = {}
    /\ exhausted = {}
    /\ state = EmptyState
    /\ pages_done = {}
    /\ range_end = 0
    /\ tmp_out = Absent
    /\ final_out = NoFinal
    /\ prev_out = Absent
    /\ killed_after = NoKill
    /\ prev_query = ""
    /\ found = EmptyState
    /\ last_saved = EmptyState
    /\ existing = {}
    /\ to_fetch = <<>>
    /\ records_by_cve = {}
    /\ failed = <<>>
    /\ jsonl_tmp = NoJsonl
    /\ out_csv = {}
    /\ now = 0
    /\ changes = 0
    /\ new_fp = NoFp
    /\ old_fp = NoFp
    /\ MANIFEST_FILE = NoFp
    /\ OUT_CSV = NoCsv
    /\ TMP_CSV = NoCsv
    /\ last_fp = NoFp
    /\ last_dir = {}

NoApi == [p \in 1..MaxTotal |-> 1]

Init1a ==
    /\ script = "1a"
    /\ api_key_file \in {"missing", "empty", "key"}
    /\ companies \in InputLists(CompanyUniverse)
    /\ ips_from_txt = <<>>
    /\ disk \in OneOrNone(Foreign1a)
    /\ api_tp = NoApi
    /\ query = "q1"
    /\ cves = <<>>
    /\ retry_limit = 0
    /\ out_jsonl = NoJsonl
    /\ domains = <<>>
    /\ service_dir = {}
    /\ known_domains = {}
    /\ InitMemory

Init2 ==
    /\ script = "2"
    /\ api_key_file \in {"missing", "empty", "key"}
    /\ companies = <<>>
    /\ \/ /\ ips_from_txt \in InputLists(IpUniverse)
          /\ \E old \in SUBSET {OlderFile2(ip) : ip \in Range(ips_from_txt)} :
             \E other \in OneOrNone(Foreign2) : disk = old \cup other
       \/ /\ ips_from_txt = LongIps
          /\ disk = {}
    /\ api_tp = NoApi
    /\ query = "q1"
    /\ cves = <<>>
    /\ retry_limit = 0
    /\ out_jsonl = NoJsonl
    /\ domains = <<>>
    /\ service_dir = {}
    /\ known_domains = {}
    /\ InitMemory

\* 6: the mock answers page p with total_pages api_tp[p] and the records of page p
Init6 ==
    /\ script = "6"
    /\ api_key_file \in {"missing", "empty", "key"}
    /\ companies = <<>>
    /\ ips_from_txt = <<>>
    /\ disk = {}
    /\ api_tp \in [1..MaxTotal -> 1..MaxTotal]
    /\ query = "q1"
    /\ cves = <<>>
    /\ retry_limit = 0
    /\ out_jsonl = NoJsonl
    /\ domains = <<>>
    /\ service_dir = {}
    /\ known_domains = {}
    /\ InitMemory

\* 4: the input list, --retry, and the JSONL left by earlier runs
Init4 ==
    /\ script = "4"
    /\ api_key_file = "key"
    /\ companies = <<>>
    /\ ips_from_txt = <<>>
    /\ disk = {}
    /\ api_tp = NoApi
    /\ query = "q1"
    /\ cves \in CveLists
    /\ retry_limit \in 1..MaxRetryArg
    /\ out_jsonl \in {NoJsonl} \cup {Jsonl(ex) : ex \in ExistingFamily}
    /\ domains = <<>>
    /\ service_dir = {}
    /\ known_domains = {}
    /\ InitMemory

Init1b ==
    /\ script = "1b"
    /\ api_key_file \in {"missing", "empty", "key"}
    /\ companies = <<>>
    /\ domains \in InputLists(DomainUniverse)
    /\ ips_from_txt = <<>>
    /\ disk = {}
    /\ api_tp = NoApi
    /\ query = "q1"
    /\ cves = <<>>
    /\ retry_limit = 0
    /\ out_jsonl = NoJsonl
    /\ service_dir = {}
    /\ known_domains = {}
    /\ InitMemory

\* 3: the service directory as script 2 left it, the known domains, no CSV yet
Init3 ==
    /\ script = "3"
    /\ api_key_file = "key"
    /\ companies = <<>>
    /\ domains = <<>>
    /\ ips_from_txt = <<>>
    /\ disk = {}
    /\ api_tp = NoApi
    /\ query = "q1"
    /\ cves = <<>>
    /\ retry_limit = 0
    /\ out_jsonl = NoJsonl
    /\ \E N \in SUBSET Range(ServiceNames) : \E c \in [N -> Hosts3] :
            service_dir = {ServiceFile(n, c[n], 0) : n \in N}
    /\ known_domains \in {Range(SubSeq(KnownUniverse, 1, k)) : k \in 0..Len(KnownUniverse)}
    /\ InitMemory

Init == Init1a \/ Init1b \/ Init2 \/ Init3 \/ Init6 \/ Init4

Next ==
    \/ fetch_page_1a \/ Main1a_NoKey \/ Main1a_Start \/ Main1a_End \/ Main1a_Skip \/ Main1a_Query
    \/ Main1a_First \/ Main1a_Pages \/ Main1a_Next \/ Main1a_Save \/ Main1a_Dump
    \/ Main1b_Start \/ Main1b_End \/ Main1b_Skip \/ Main1b_Dns \/ Main1b_Org
    \/ Main1b_Enrich \/ Main1b_Dump
    \/ fetch_page_2 \/ Main2_Stop \/ Main2_NoKey \/ Main2_Overview \/ Main2_End \/ Main2_Query
    \/ Main2_First \/ Main2_Pages \/ Main2_Next \/ Main2_Save \/ Main2_Dump
    \/ post_page \/ Main6_NoKey \/ Main6_Fresh \/ Main6_Resume \/ save_tmp_state \/ Main6_Begin
    \/ Main6_First \/ Main6_FirstSaved \/ Main6_Loop \/ Main6_Next \/ Main6_PageSaved
    \/ consolidate_to_final
    \/ Main4_Plan \/ Main4_Query \/ fetch_nvd_cve \/ Main4_Record \/ Main4_End
    \/ write_jsonl_tmp \/ write_jsonl_replace
    \/ Main3_Fingerprint \/ Main3_Skip \/ Main3_Build \/ Main3_Replace \/ Main3_Manifest
    \/ Tick3 \/ Touch3 \/ Modify3 \/ Add3 \/ Remove3
    \/ Kill \/ Restart

Spec == Init /\ [][Next]_vars

\* ------------------------------------------------------------------ claims
\* what an uninterrupted run from an empty checkpoint writes as "results" when every
\* page is answered: page 1, then range(1, total_pages of page 1 + 1)
RECURSIVE PagesUpTo(_)
PagesUpTo(n) == IF n = 0 THEN <<>> ELSE PagesUpTo(n - 1) \o MockRecords6(query, n)

Uninterrupted == PagesUpTo(api_tp[1])

ResumedAfterKill ==
    /\ script = "6"
    /\ 1 <= killed_after.k /\ killed_after.k < killed_after.n
    /\ query = prev_query
    /\ pc = "done"

\* C1: a run of 6 killed right after the checkpoint of page k of n (1 <= k < n) and
\* restarted with the same query requests exactly the pages k+1..n, and writes the
\* "results" of an uninterrupted run over the same API responses.
C1_IdempotentResume ==
    ResumedAfterKill =>
        /\ requested = (killed_after.k + 1)..killed_after.n
        /\ final_out.results = Uninterrupted

\* the mocked API reports the same total_pages on every page
ApiConsistent == \A p \in 1..MaxTotal : api_tp[p] = api_tp[1]

\* the resume property of C1 for an API that reports one total_pages throughout
C1_ConsistentApi == ApiConsistent => C1_IdempotentResume

\* C2: in 1a and 2 a unit's output file (its completion marker, written together
\* with the OK row) is written only if every page 1..total_pages was fetched.
C2_DoneOnlyWhenAllPages ==
    script \in {"1a", "2"} =>
        \A f \in disk : (f.whole /\ f.run >= 1) => f.fetched = f.total

\* C3: no HTTP request is issued for a key the start-of-run scan reports complete
\* (1a: its safe name is in COMPLETED_SAFE_NAMES; 2: the IP has a file dated today,
\* or an older one and the operator did not answer "y" to the rescan prompt).
C3_NoRequestForCompleted ==
    /\ script = "1a" =>
            \A u \in requested : safe_name_of(u) \notin COMPLETED_SAFE_NAMES
    /\ script = "2" =>
            \A u \in requested :
                /\ <<Today>> \notin dates_of(index, u)
                /\ dates_of(index, u) # {} => rescan_old

\* a run of 1a that skipped a completed company and queried another one
C3_SkippedAndRequested ==
    /\ script = "1a" /\ pc = "done"
    /\ requested # {}
    /\ \E i \in 1..Len(companies) : safe_name_of(companies[i]) \in COMPLETED_SAFE_NAMES

\* C4: terminating the process never loses completed work; in 4 every CVE record
\* fetched before the termination is in the JSONL file on disk.
C4_ProgressPersisted ==
    (script = "4" /\ pc = "dead") =>
        \A rec \in records_by_cve : rec.run = run => rec \in out_jsonl.records

\* C5: after a crash during save_tmp_state, load_tmp_state does not return the empty
\* state if a valid checkpoint existed before the save.
C5_AtomicCheckpoint ==
    (script = "6" /\ pc = "dead" /\ load_tmp_state(prev_out) # EmptyState) =>
        load_tmp_state(tmp_out) # EmptyState

\* C6: a crash during the write of a unit's output file (1a, 2) leaves no partially
\* written file under the final name.
C6_NoPartialOutput ==
    (script \in {"1a", "2"} /\ pc = "dead") => \A f \in disk : f.whole

\* C7: a network error (timeout, connection exception) on a request never propagates
\* out of a fetcher and ends the run; it is retried like a 429.
C7_NetworkErrorContained ==
    (statuses # <<>> /\ statuses[Len(statuses)] = "neterr") => pc # "aborted"

\* the rows of the run's log file for a unit with a status
HasRow(u, status) ==
    \E i \in 1..Len(log_file) : log_file[i].key = u /\ log_file[i].status = status

\* C8: a unit whose first page failed has a FAIL row in the run's log file.
C8_FailRowLogged ==
    script \in {"1a", "2"} => \A u \in failed_units : HasRow(u, "FAIL")

\* C9: a unit a fetch gave up on after the retries has no output file written in
\* that run (so the next scan does not report it and it is fetched again).
C9_FailedStaysEligible ==
    script \in {"1a", "2"} =>
        \A u \in exhausted : \A f \in disk : f.unit = u => f.run # run

\* the configured limit of the fetcher of the running script
Limit == IF script = "4" THEN retry_limit ELSE MAX_RETRIES

\* each call of a fetcher issues at most Limit requests, and Limit consecutive 429
\* answers end the call with the failure value
C10_Bounded ==
    /\ Len(statuses) <= Limit
    /\ Len(statuses) = Limit => attempt = 0
    /\ (Len(statuses) = Limit /\ \A i \in 1..Limit : statuses[i] = "429") => ret = None

\* C10: each call of a fetcher issues at most Limit HTTP requests and always returns
\* a value to its caller; after Limit consecutive 429 answers that value is failure.
C10_BoundedAndReturns ==
    /\ C10_Bounded
    /\ (statuses # <<>> /\ attempt = 0) => ret # NoRet

\* C11: an answer whose status is neither 200 nor 429 ends the call at once with the
\* failure value: it is the last request of the call and no sleep follows it.
C11_FailFast ==
    \A i \in 1..Len(statuses) :
        statuses[i] = "500" =>
            /\ i = Len(statuses)
            /\ attempt = 0
            /\ ret = None
            /\ slept = Len(statuses) - 1

\* a call of fetch_page in 2 answered with a 429 and then with a 500
C11_FailedAfterRetry ==
    /\ script = "2"
    /\ statuses = <<"429", "500">>

\* the records of a checkpoint dict, as a set
RecordsOf(st) ==
    UNION {Range(st.results_by_page[p]) : p \in DOMAIN st.results_by_page}

\* the run found a checkpoint of another query and has initialised its state
QueryChanged ==
    /\ script = "6"
    /\ found # EmptyState /\ found.query # query
    /\ state # EmptyState

\* C12: when the stored checkpoint is of another query, main replaces it by a fresh
\* one; nothing of the old checkpoint is in the state, in the checkpoint file or in
\* the final output the run writes.
C12_FreshOnMismatch ==
    QueryChanged =>
        /\ state.query = query
        /\ pc = "save_init" => state = FreshState(query)
        /\ pc = "loaded" => (state = FreshState(query) /\ tmp_out = Written(state))
        /\ DOMAIN state.results_by_page \subseteq requested
        /\ \A rec \in RecordsOf(state) : rec.query = query
        /\ load_tmp_state(tmp_out) # EmptyState => load_tmp_state(tmp_out).query = query
        /\ pc = "done" => (final_out.query = query
                           /\ \A rec \in Range(final_out.results) : rec.query = query)

\* a run that found a checkpoint with pages of another query and wrote its final output
C12_DiscardedAndDone ==
    /\ QueryChanged
    /\ pc = "done"
    /\ found.pages_done # <<>>

\* C13: in every checkpoint on disk whose total_pages is known, pages_done is a
\* subset of 1..total_pages.
C13_PagesWithinTotal ==
    (script = "6" /\ load_tmp_state(tmp_out).total_pages > 0) =>
        \A p \in Range(load_tmp_state(tmp_out).pages_done) :
            p \in 1..load_tmp_state(tmp_out).total_pages

\* checkpoint dict new holds every page of checkpoint dict old, with the same records
ContainsPages(new, old) ==
    /\ Range(old.pages_done) \subseteq Range(new.pages_done)
    /\ \A p \in DOMAIN old.results_by_page :
            /\ p \in DOMAIN new.results_by_page
            /\ new.results_by_page[p] = old.results_by_page[p]

\* C14: every checkpoint written holds every page of the checkpoint written before
\* it for the same query, across saves and restarts.
C14_NoRegress ==
    [][(tmp_out'.whole /\ tmp_out' # tmp_out /\ last_saved.query = tmp_out'.content.query)
            => ContainsPages(tmp_out'.content, last_saved)]_vars

\* the records of pages 1..n of a unit, as the mocked APIs return them
RECURSIVE Pages1a(_, _)
Pages1a(company, n) ==
    IF n = 0 THEN <<>> ELSE Pages1a(company, n - 1) \o MockRecords1a(company, n)

RECURSIVE Pages2(_, _)
Pages2(ip, n) == IF n = 0 THEN <<>> ELSE Pages2(ip, n - 1) \o MockRecords2(ip, n)

C15_SecondRunDone ==
    /\ script = "6" /\ pc = "done"
    /\ found.query = query /\ found.pages_done = <<1, 2>> /\ found.total_pages = 3

\* 4: the fetch loop is over (and had something to fetch)
LoopOver4 ==
    /\ script = "4" /\ to_fetch # <<>>
    /\ pc \in {"final", "final_replace", "done"}

\* the ids whose fetch succeeded in this run
Fetched4 == Range(to_fetch) \ Range(failed)

C17_NoRequestWithoutKey ==
    (script \in {"1a", "1b", "2", "6"} /\ api_key_file # "key") => requested = {}

\* what the matched files of a directory hold: names and texts
Contents(dir) == {[name |-> f.name, fqdn |-> f.fqdn] : f \in dir}

\* the step of main of 3 that calls dataset_fingerprint
Fingerprinting == script = "3" /\ pc = "start" /\ pc' \in {"ask", "build"}

\* C18: equal fingerprints imply an unchanged dataset: when dataset_fingerprint
\* returns the sha256 of the call before, no matched file was added, removed or
\* modified between the two calls; and when main of 3 skips the rebuild, the CSV
\* holds exactly the rows of the current content of the service directory.
C18_EqualMeansUnchanged ==
    [][/\ (Fingerprinting /\ last_fp # NoFp /\ new_fp'.sha256 = last_fp.sha256)
            => Contents(service_dir) = Contents(last_dir)
       /\ (script = "3" /\ pc = "ask" /\ pc' = "done")
            => OUT_CSV.rows = all_rows(service_dir, known_domains)]_vars

\* the modification time of a matched file is not what it was
MtimeChanged(old, new) == \E f \in old : \E g \in new : f.name = g.name /\ f.mtime # g.mtime

\* C19: two calls of dataset_fingerprint with no change of the file system in
\* between return equal sha256 values, and a change of the modification time of
\* a matched file between two calls makes the two sha256 values differ.
C19_TouchChangesFingerprint ==
    [][(Fingerprinting /\ last_fp # NoFp) =>
            /\ service_dir = last_dir => new_fp'.sha256 = last_fp.sha256
            /\ MtimeChanged(last_dir, service_dir) => new_fp'.sha256 # last_fp.sha256]_vars

\* the domains a nidv_company cell reports
Reported(company) == Range(split(company, ";")) \ {<<>>}

\* h == d or h ends with "." + d
LabelBoundary(h, d) == h = d \/ endswith(h, <<".">> \o d)

Reversed(rows) == [i \in DOMAIN rows |-> rows[Len(rows) + 1 - i]]

\* the keys flatten gave a row: all but the trace columns added from the file name
FlatKeys(row) == DOMAIN row \ {"source_file", "source_ip", "scan_date"}

\* C21: flatten is deterministic and the CSV header is the sorted union of the
\* key sets of the exported rows: in the CSV of 3 two rows made from the same
\* result have the same keys and the same values; the header holds exactly the
\* keys of the rows, each once, in ascending code-point order, and is the same
\* when the rows are read in the opposite order; the raw certificate is no
\* column; every line has one cell per column, "" where the row has no value.
C21_SortedHeader ==
    (script = "3" /\ OUT_CSV.exists) =>
        LET rows == OUT_CSV.rows
            header == OUT_CSV.header
        IN  /\ \A i, j \in DOMAIN rows :
                    rows[i].fqdns = rows[j].fqdns =>
                        /\ DOMAIN rows[i] = DOMAIN rows[j]
                        /\ \A k \in FlatKeys(rows[i]) : rows[i][k] = rows[j][k]
            /\ Range(header) = UNION {DOMAIN rows[i] : i \in DOMAIN rows}
            /\ \A i, j \in DOMAIN header : i < j => rank(header[i]) < rank(header[j])
            /\ header = headers_of(Reversed(rows))
            /\ "service.tls.raw" \notin Range(header)
            /\ DOMAIN OUT_CSV.lines = DOMAIN rows
            /\ \A i \in DOMAIN rows :
                    /\ Len(OUT_CSV.lines[i]) = Len(header)
                    /\ \A j \in DOMAIN header :
                        IF header[j] \in DOMAIN rows[i]
                        THEN OUT_CSV.lines[i][j] = rows[i][header[j]]
                        ELSE OUT_CSV.lines[i][j] = ""

\* the CSV of 3 holds two rows with different key sets, the row read first
\* with a key ("tags") that sorts after a key only the second row has
C21_TwoKeySets ==
    /\ script = "3" /\ OUT_CSV.exists
    /\ Len(OUT_CSV.rows) = 2
    /\ "tags" \in DOMAIN OUT_CSV.rows[1]
    /\ "service.port" \in DOMAIN OUT_CSV.rows[2] \ DOMAIN OUT_CSV.rows[1]
    /\ Len(OUT_CSV.header) > Cardinality(DOMAIN OUT_CSV.rows[1])

\* a file with the given name, whole
Named(name) == [name |-> name, whole |-> TRUE]

\* C22: the safe name the completion scan parses back from the output file name
\* written for a key is the safe name the main loop derives from the key (1a, 1b),
\* so in a later run the scan holds the safe name of every unit an earlier run
\* saved and no request is issued for such a unit.
C22_SafeNameRederived ==
    /\ script = "1a" =>
        /\ \A k \in Range(companies) :
                load_completed_safe_names({Named(output_file_1a(k, Today))}) = {safe_name_of(k)}
        /\ idx > 0 =>
                \A f \in disk : f.run \in 1..(run - 1) =>
                    /\ safe_name_of(f.unit) \in COMPLETED_SAFE_NAMES
                    /\ f.unit \notin requested
    /\ script = "1b" =>
        /\ \A k \in Range(domains) :
                load_completed_safe_domains({Named(output_file_1b(k, Today))}) = {safe_domain_of(k)}
        /\ idx > 0 =>
                \A f \in disk : f.run \in 1..(run - 1) =>
                    /\ safe_domain_of(f.unit) \in COMPLETED_SAFE_DOMAINS
                    /\ f.unit \notin requested

\* a second run of 1a skipped the company "a b", which the first run saved
C22_SavedThenSkipped ==
    /\ script = "1a" /\ run = 2
    /\ \E f \in disk : f.run = 1 /\ f.whole /\ f.unit = <<"a", " ", "b">>
    /\ HasRow(<<"a", " ", "b">>, "SKIP_EXISTS")

\* the name follows <prefix>_<key>_<date>.json: the prefix, a key, a date
Conventional(name, prefix) ==
    /\ Len(name) > Len(prefix) + 3
    /\ startswith(name, prefix)
    /\ name[Len(name)] = ".json"
    /\ name[Len(name) - 1] \in {Today, Older}
    /\ name[Len(name) - 2] = "_"

\* C23: the completion scan ignores the entries of the output directory whose
\* names do not follow <prefix>_<key>_<date>.json: every completed key of 1a and
\* every (ip, date) pair of the file index of 2 comes from an entry that does.
C23_ForeignIgnored ==
    /\ script = "1a" =>
            COMPLETED_SAFE_NAMES \subseteq
                load_completed_safe_names(
                    {f \in disk : Conventional(f.name, <<"modat", "_", "host", "_">>)})
    /\ script = "2" =>
            \A e \in index : \E f \in disk :
                /\ Conventional(f.name, <<"modat", "_", "service", "_">>)
                /\ parse_ip_from_filename(f.name) = e

\* the walk is well formed: a sleep follows a page call, a page call other than
\* the first follows a sleep, and the pages called ascend
Shape(tr) ==
    /\ \A i \in DOMAIN tr :
            IF tr[i] = 0 THEN i > 1 /\ tr[i - 1] # 0
            ELSE i > 1 => tr[i - 1] = 0
    /\ \A i, j \in DOMAIN tr : (i < j /\ tr[i] # 0 /\ tr[j] # 0) => tr[i] < tr[j]

\* C24: within a run the pages of a unit are called (one fetcher call each) in
\* this order: page 1 first; a page p >= 2 only when page 1 has succeeded and
\* total_pages is known (1a, 2: in this run; 6: in this run or in the checkpoint
\* the run resumed); the pages ascend, so each is called at most once, and a
\* sleep lies between two consecutive page calls.
C24_PageOrder ==
    [][(page_trace' # page_trace /\ page_trace' # <<>>) =>
            LET new == page_trace'
                p == new[Len(new)]
            IN  /\ Shape(new)
                /\ \/ new = <<1>>
                   \/ /\ Len(new) > Len(page_trace)
                      /\ SubSeq(new, 1, Len(page_trace)) = page_trace
                /\ script \in {"1a", "2"} => new[1] = 1
                /\ (p >= 2 /\ script \in {"1a", "2"}) =>
                        /\ pc = "pages" /\ truthy(ret)
                        /\ p = page_num /\ p <= total_pages
                        /\ new = page_trace \o <<0, p>>
                /\ (p >= 2 /\ script = "6") =>
                        /\ 1 \in pages_done /\ 1 \in Range(state.pages_done)
                        /\ state.total_pages >= 1
                        /\ p \notin pages_done
                        /\ new = Append(page_trace, p)]_vars

\* a unit of 2 with two pages was walked to its end
C24_TwoPagesWalked ==
    /\ script = "2" /\ pc = "save"
    /\ page_trace = <<1, 0, 2>>
    /\ truthy(ret)

\* ------------------------------------------------------------------ C25
\* C25: between two consecutive successful unit saves of 1a and 2 at most one batch
\* sleep (SLEEP_AFTER_BATCH) is taken, also when skipped or failed units are iterated
\* in between.
C25_OneBatchSleep ==
    script \in {"1a", "2"} => batch_sleeps <= 1

\* ------------------------------------------------------------------ C26
\* C26: 6 writes the consolidated final output only in a state where pages_done is
\* exactly 1..total_pages for the total_pages stored in the checkpoint at that moment,
\* also when a later page reported another total_pages than page 1.
C26_FinalOnlyWhenComplete ==
    (script = "6" /\ pc = "consolidate") =>
        Range(state.pages_done) = 1..state.total_pages

\* ------------------------------------------------------------------ C27
\* C27: within one run of 1a and 1b the lookups of a unit are begun at most once,
\* also when the input list names the unit more than once (a repeated domain line,
\* names that share a safe name).
C27_OneLookupPerRun ==
    script \in {"1a", "1b"} =>
        \A i, j \in 1..Len(lookups) : lookups[i] = lookups[j] => i = j

\* ------------------------------------------------------------------ C28
\* the companies of the list whose log row of this run is SKIP_EXISTS
Skipped == {log_file[i].key : i \in {j \in 1..Len(log_file) : log_file[j].status = "SKIP_EXISTS"}}

\* C28: in 1a a company is skipped as already processed only if an output file
\* written for that same company name exists; distinct names never share a
\* completion marker.
C28_SkippedWasFetched ==
    script = "1a" =>
        \A company \in Skipped :
            \E f \in disk : f.unit = company

\* ------------------------------------------------------------------ C29
\* C29: in 4 every record load_existing_jsonl returned at the start of the run is
\* in the JSONL file for the rest of the run (the stored set never shrinks, also for
\* ids that are not in the current list), and an id whose fetch failed keeps the
\* record it had, in every scan mode.
C29_StoredKept ==
    (script = "4" /\ pc # "start") =>
        /\ keys(existing) \subseteq keys(load_existing_jsonl(out_jsonl))
        /\ \A rec \in existing :
                rec.cve_id \in Range(failed) => rec \in load_existing_jsonl(out_jsonl)

\* a run of 4 is over with its final write done: the fetch of a stored id failed,
\* another id was fetched, and a stored id is not in the list
C29_FailedAndForeignKept ==
    /\ script = "4" /\ pc = "done"
    /\ failed = <<1>>
    /\ Record(1, "now", TRUE, 0) \in out_jsonl.records
    /\ Record(0, "week", FALSE, 0) \in out_jsonl.records
    /\ 0 \notin Range(cves)
    /\ \E rec \in out_jsonl.records : rec.run = run

\* ------------------------------------------------------------------ C30
\* the fetcher returned a decoded JSON body to the caller of 1a, 2 or 6, which is
\* about to test it
Decoded ==
    /\ script \in {"1a", "2", "6"}
    /\ pc \in {"first", "next"}
    /\ attempt = 0
    /\ ret.kind = "dict"

\* the caller takes its failure branch: the unit is logged FAIL and left (pc "loop"),
\* the page walk is broken off (pc "save"), or 6 returns 1 (pc "exit1")
TreatedAsFailed == pc' \in {"loop", "save", "exit1"}

\* C30: a page answered with HTTP 200 and a decodable body is always counted as
\* fetched by the callers of 1a, 2 and 6, also when the body is an empty object.
C30_DecodedIsFetched ==
    [][Decoded => ~TreatedAsFailed]_vars

====
